---------------------------- MODULE Spec2Model ----------------------------
(***************************************************************************)
(* Model of @goobits/forms: the CSRF token store (security/csrf.js), the   *)
(* category router (handlers/categoryRouter.js), the configuration merges  *)
(* (config/secureDeepMerge.js, config/index.js, config/contactSchemas.js), *)
(* the rate limiter (services/rateLimiterService.js) and the contact API   *)
(* handler (handlers/contactFormHandler.js).                               *)
(*                                                                         *)
(* Date.now() is the variable now, in milliseconds.  TLC integers are 32   *)
(* bits wide, so the clock starts at StartTime, a value with ten decimal   *)
(* digits, and stays below 2^31: every clock value of a run has the same   *)
(* number of decimal digits, as Date.now() has between 2001 and 2286.      *)
(***************************************************************************)
EXTENDS Integers, Sequences, FiniteSets, TLC

VARIABLES
    now,             \* Date.now()
    ticks,           \* number of clock advances so far (bounded)
    \* ---- security/csrf.js
    tokenStore,      \* Map token -> expires
    issuedAt,        \* history: token -> Date.now() at generateCsrfToken
    nValidations,    \* history: validateCsrfToken calls per token since its issuance (2 = two or more)
    \* ---- observation
    last,            \* history: the latest operation, its inputs and its result
    \* ---- configuration merges
    mIn,             \* the arguments: [target, source]
    mOut,            \* history: the latest merge, [fn, result]
    \* ---- services/rateLimiterService.js
    ipLimits,              \* Map identifier -> timestamps
    formSubmissionLimits,  \* Map email key -> timestamps
    ipCalls,         \* history: identifier -> the times of all calls made under its IP limit
    formCalls,       \* history: email key -> its rateLimitFormSubmission calls
    apiReqs,         \* history: client address -> the times of its contact API requests
    nCalls,          \* number of calls made so far (bounded)
    rl,              \* history: the latest rate limiter call and its result
    api,             \* history: the latest contact API request and its response
    \* ---- config/index.js, config/contactSchemas.js: validation
    conf,            \* the configuration under test and what was built from it
    val,             \* history: the latest parse or validation and its result
    \* ---- handlers/index.js, and the comparison of two runs of a handler
    post,            \* history: the latest createContactPostHandler request and its response
    runs             \* history: two runs of one handler that differ in a thrown message

StartTime == 1000000000

\* ------------------------------------------------------------------ bounds
MaxTicks == 2
MaxCalls == 3
MaxApiCalls == 2
MaxFields == 2

\* =========================================================================
\* security/csrf.js
\* =========================================================================
TOKEN_EXPIRY_MS == 3600000

\* Values generateSecureToken can return (32 random bytes, base64url).
Tokens == {"tokA", "tokB"}

\* What formData.get('csrf') / a caller can hand to validateCsrfToken:
\* null (field missing), '' (empty field), a File (non-string), or a string.
CsrfNull == "<null>"
CsrfEmpty == "<empty>"
CsrfFile == "<file>"
CsrfFields == {CsrfNull, CsrfEmpty, CsrfFile} \cup Tokens

\* !token || typeof token !== 'string'
IsNonEmptyString(token) == token \notin {CsrfNull, CsrfEmpty, CsrfFile}

\* Mutant: a deletion empties the store.
MapDelete_all(m, k) == [x \in {} |-> 0]

\* Map.prototype.delete
MapDelete(m, k) == [x \in (DOMAIN m) \ {k} |-> m[x]]

MapSet(m, k, v) == [x \in (DOMAIN m) \cup {k} |-> IF x = k THEN v ELSE m[x]]

EmptyMap == [x \in {} |-> 0]

\* cleanupExpiredTokens(): delete every token with now > expires
cleanupExpiredTokens(store, t) ==
    [x \in {y \in DOMAIN store : ~(t > store[y])} |-> store[x]]

\* Mutant: a successful validation leaves the token in the store.
validateCsrfToken_keep(store, token, t) ==
    IF ~IsNonEmptyString(token) THEN [ok |-> FALSE, store |-> store]
    ELSE IF token \notin DOMAIN store THEN [ok |-> FALSE, store |-> store]
    ELSE IF t > store[token] THEN [ok |-> FALSE, store |-> MapDelete(store, token)]
    ELSE [ok |-> TRUE, store |-> store]

\* validateCsrfToken(token): the result and the store it leaves
validateCsrfToken(store, token, t) ==
    IF ~IsNonEmptyString(token) THEN [ok |-> FALSE, store |-> store]
    ELSE IF token \notin DOMAIN store THEN [ok |-> FALSE, store |-> store]
    ELSE IF t > store[token] THEN [ok |-> FALSE, store |-> MapDelete(store, token)]
    ELSE [ok |-> TRUE, store |-> MapDelete(store, token)]

Bump(n) == IF n >= 2 THEN 2 ELSE n + 1

\* =========================================================================
\* handlers/categoryRouter.js : createCategoryRouter(config).handleSubmission
\* =========================================================================
MsgCsrf == "Invalid security token. Please try again."
MsgRecaptcha == "reCAPTCHA validation failed. Please try again."
MsgGeneric == "An error occurred. Please try again."
MsgUnexpected == "An unexpected error occurred. Please try again."

NoErrors == [k \in {} |-> ""]

FormError(msg) == [k \in {"_form"} |-> msg]

\* error maps a form data parser can return
ErrName == [k \in {"name"} |-> "Name is required"]

ErrProcessing == [k \in {"_form"} |-> "An error occurred while processing the form data."]

\* What awaiting formDataParser(formData, slug) can do: throw, return
\* null/undefined, or return {data?, errors?}.
ParserOutcomes ==
    [kind : {"throw", "nullish"}, hasData : {FALSE}, hasErrors : {FALSE}, errors : {NoErrors}]
    \cup { [kind |-> "result", hasData |-> TRUE, hasErrors |-> FALSE, errors |-> NoErrors],
           [kind |-> "result", hasData |-> FALSE, hasErrors |-> TRUE, errors |-> NoErrors],
           [kind |-> "result", hasData |-> TRUE, hasErrors |-> TRUE, errors |-> ErrName],
           [kind |-> "result", hasData |-> FALSE, hasErrors |-> TRUE, errors |-> ErrProcessing] }

DefaultParserOutcome ==
    [kind |-> "nullish", hasData |-> FALSE, hasErrors |-> FALSE, errors |-> NoErrors]

\* Values that can be thrown: message ("" when the value has none) and status.
ErrRecaptcha == [message |-> "reCAPTCHA verification failed", status |-> 0]
ErrSmtp == [message |-> "SMTP connection refused", status |-> 0]
ErrNoMessage == [message |-> "", status |-> 0]
ErrParser == [message |-> "parser failed", status |-> 0]
ErrNotAFunction == [message |-> "redirect is not a function", status |-> 0]
\* SvelteKit's Redirect object: {status, location}, no message
Redirect303 == [message |-> "", status |-> 303]

\* error.message && error.message.includes('reCAPTCHA')
IncludesRecaptcha(error) == error.message \in {"reCAPTCHA verification failed"}

HandlerErrors == {ErrRecaptcha, ErrSmtp}

\* createSubmissionHandler(locals): returns a handler, returns nothing, throws
CreateOutcomes == {"handler", "nullish", "throw"}

\* submissionHandler(fullData, slug): completes or throws
HandlerOutcomes == [threw : {FALSE}, error : {ErrNoMessage}] \cup [threw : {TRUE}, error : HandlerErrors]

DefaultHandlerOutcome == [threw |-> FALSE, error |-> ErrNoMessage]

\* errorHandler(error, {data, slug}): returns a payload, returns nothing, or
\* throws the error it was given
ErrorHandlerOutcomes == {"custom", "nothing", "rethrow"}

\* the `redirect` member of the action parameters: SvelteKit's redirect, or
\* absent (a SvelteKit RequestEvent has no such member)
RedirectFns == {"redirect", "undefined"}

\* responses: {form: {data, errors, isSubmitted}}, the errorHandler's payload,
\* or a thrown value that leaves handleSubmission
FormResponse(data, errors) ==
    [kind |-> "form", data |-> data, errors |-> errors, isSubmitted |-> FALSE, status |-> 0]

CustomResponse == [kind |-> "custom", data |-> "n/a", errors |-> NoErrors, isSubmitted |-> FALSE, status |-> 0]

ThrownResponse(error) ==
    [kind |-> "thrown", data |-> "n/a", errors |-> NoErrors, isSubmitted |-> FALSE, status |-> error.status]

Outcome(resp, store, calls, validated) ==
    [resp |-> resp, store |-> store, calls |-> calls, validated |-> validated]

\* outer catch (lines 959-974)
OuterCatch(error, store, calls) ==
    IF error.status = 303
    THEN Outcome(ThrownResponse(error), store, calls, TRUE)
    ELSE Outcome(FormResponse("empty", FormError(MsgUnexpected)), store, calls, TRUE)

\* Mutant: the reply carries the message of the error that was caught.
GenericError_echo(error) == FormError(error.message)

\* errors: { _form: 'An error occurred. Please try again.' } (lines 951-957)
GenericError(error) == FormError(MsgGeneric)

\* inner catch (lines 929-958)
InnerCatch(cfg, in, error, data, store, calls) ==
    IF IncludesRecaptcha(error)
    THEN Outcome(FormResponse(data, FormError(MsgRecaptcha)), store, calls, TRUE)
    ELSE IF cfg.errorHandler
    THEN LET calls2 == calls \cup {"errorHandler"} IN
         CASE in.errorHandler = "custom" -> Outcome(CustomResponse, store, calls2, TRUE)
           [] in.errorHandler = "rethrow" -> OuterCatch(error, store, calls2)
           [] OTHER -> Outcome(FormResponse(data, GenericError(error)), store, calls2, TRUE)
    ELSE Outcome(FormResponse(data, GenericError(error)), store, calls, TRUE)

\* throw redirect(303, ...) (line 928), inside the inner try
ThrowRedirect(cfg, in, data, store, calls) ==
    LET calls2 == calls \cup {"line928"} IN
    IF in.redirect = "redirect"
    THEN InnerCatch(cfg, in, Redirect303, data, store, calls2 \cup {"redirect"})
    ELSE InnerCatch(cfg, in, ErrNotAFunction, data, store, calls2)

\* inner try (lines 912-928)
InnerTry(cfg, in, data, store, calls) ==
    IF cfg.createSubmissionHandler
    THEN LET calls2 == calls \cup {"createSubmissionHandler"} IN
         CASE in.create = "throw" -> InnerCatch(cfg, in, ErrSmtp, data, store, calls2)
           [] in.create = "nullish" -> ThrowRedirect(cfg, in, data, store, calls2)
           [] OTHER ->
               LET calls3 == calls2 \cup {"submissionHandler"} IN
               IF in.handler.threw
               THEN InnerCatch(cfg, in, in.handler.error, data, store, calls3)
               ELSE ThrowRedirect(cfg, in, data, store, calls3)
    ELSE ThrowRedirect(cfg, in, data, store, calls)

\* Mutant: the early return on validation errors is missing.
HasErrors_never(errors) == FALSE

\* Object.keys(errors).length > 0
HasErrors(errors) == DOMAIN errors # {}

\* lines 892-910, then the inner try
AfterTokenCheck(cfg, in, store) ==
    IF cfg.formDataParser
    THEN LET calls == {"formDataParser"} IN
         CASE in.parser.kind = "throw" -> OuterCatch(ErrParser, store, calls)
           [] in.parser.kind = "nullish" -> InnerTry(cfg, in, "raw", store, calls)
           [] OTHER ->
               LET data == IF in.parser.hasData THEN "parsed" ELSE "raw"
                   errors == IF in.parser.hasErrors THEN in.parser.errors ELSE NoErrors
               IN IF HasErrors(errors)
                  THEN Outcome(FormResponse(data, errors), store, calls, TRUE)
                  ELSE InnerTry(cfg, in, data, store, calls)
    ELSE InnerTry(cfg, in, "raw", store, {})

\* Mutant: the token check accepts every request.
TokenCheck_open(store, token, t) == [ok |-> TRUE, store |-> store]

\* line 881: validateCsrfToken(csrfToken)
TokenCheck(store, token, t) == validateCsrfToken(store, token, t)

\* Mutant: a request that passes the token check leaves its token stored.
handleSubmission_tokenKept(cfg, store, t, in) ==
    IF ~in.bodyOk
    THEN Outcome(FormResponse("empty", FormError(MsgUnexpected)), store, {}, FALSE)
    ELSE LET v == TokenCheck(store, in.csrf, t) IN
         IF ~v.ok
         THEN Outcome(FormResponse("raw", FormError(MsgCsrf)), v.store, {}, TRUE)
         ELSE AfterTokenCheck(cfg, in, store)

\* handleSubmission({request, url, params, redirect, locals}) (lines 867-975)
handleSubmission(cfg, store, t, in) ==
    IF ~in.bodyOk
    THEN \* request.formData() rejects: outer catch, nothing validated
         Outcome(FormResponse("empty", FormError(MsgUnexpected)), store, {}, FALSE)
    ELSE LET v == TokenCheck(store, in.csrf, t) IN
         IF ~v.ok
         THEN Outcome(FormResponse("raw", FormError(MsgCsrf)), v.store, {}, TRUE)
         ELSE AfterTokenCheck(cfg, in, v.store)

\* ----------------------------------------------------------------- load
\* Strings whose characters matter are sequences of characters.
S_general == <<"g", "e", "n", "e", "r", "a", "l">>
S_support == <<"s", "u", "p", "p", "o", "r", "t">>
S_success == <<"s", "u", "c", "c", "e", "s", "s">>
S_constructor == <<"c", "o", "n", "s", "t", "r", "u", "c", "t", "o", "r">>
S_gen_inq == <<"g", "e", "n", "-", "i", "n", "q">>
S_nope == <<"n", "o", "p", "e">>
L_GenInq == <<"G", "e", "n", " ", " ", "I", "n", "q">>
L_Support == <<"S", "u", "p", "p", "o", "r", "t">>

\* config.categories: category key -> label
RouterCategories == [k \in {S_general, S_support} |-> IF k = S_general THEN L_GenInq ELSE L_Support]

\* property names every plain object inherits from Object.prototype
InheritedKeys == {S_constructor}

\* String.prototype.toLowerCase, one character
LowerChar(c) ==
    CASE c = "G" -> "g" [] c = "I" -> "i" [] c = "S" -> "s" [] OTHER -> c

IsWhitespace(c) == c \in {" ", "\t"}

RECURSIVE ReplaceWhitespaceRuns(_)
\* str.replace(/\s+/g, '-')
ReplaceWhitespaceRuns(str) ==
    IF str = <<>> THEN <<>>
    ELSE IF IsWhitespace(Head(str))
    THEN IF Len(str) > 1 /\ IsWhitespace(str[2])
         THEN ReplaceWhitespaceRuns(Tail(str))
         ELSE <<"-">> \o ReplaceWhitespaceRuns(Tail(str))
    ELSE <<Head(str)>> \o ReplaceWhitespaceRuns(Tail(str))

\* cat.label.toLowerCase().replace(/\s+/g, '-')
NormalizedLabel(label) == ReplaceWhitespaceRuns([i \in 1..Len(label) |-> LowerChar(label[i])])

\* categories[slug] is truthy: an own key, or a property inherited from
\* Object.prototype
CategoryLookup(categories, slug) == slug \in DOMAIN categories \/ slug \in InheritedKeys

LoadResponse(kind, status) ==
    [kind |-> kind, data |-> "empty", errors |-> NoErrors, isSubmitted |-> FALSE, status |-> status]

\* load({params, url, error, redirect}) (lines 807-858); helpers tells
\* whether the caller supplied the error and redirect functions
load(categories, slug, helpers) ==
    IF slug = S_success
    THEN LoadResponse("thankYou", 0)
    ELSE IF CategoryLookup(categories, slug)
    THEN LoadResponse("form", 0)
    ELSE IF \E key \in DOMAIN categories : NormalizedLabel(categories[key]) = slug
    THEN IF helpers = "redirect" THEN LoadResponse("thrown", 301) ELSE LoadResponse("thrown", 0)
    ELSE IF helpers = "redirect" THEN LoadResponse("thrown", 404) ELSE LoadResponse("thrown", 0)

\* Object.entries(categories): the keys in declaration order
CategoryOrder == <<S_general, S_support>>

\* categoryEntry[0] (lines 828-837): the key of the first category, in
\* Object.entries order, whose normalized label is the slug; <<>> when there
\* is none
RedirectTarget(categories, slug) ==
    LET matches == {i \in DOMAIN CategoryOrder : NormalizedLabel(categories[CategoryOrder[i]]) = slug}
    IN IF matches = {} THEN <<>>
       ELSE CategoryOrder[CHOOSE i \in matches : \A j \in matches : i <= j]

\* =========================================================================
\* JavaScript values for the configuration merges
\* =========================================================================
\* A value is a primitive, a plain object (own enumerable properties f and a
\* prototype slot: <<>> is Object.prototype, <<v>> a prototype replaced by
\* v), an array, Object.prototype itself or the function Object.
NoProps == [k \in {} |-> 0]

Prim(p) == [t |-> "prim", p |-> p, f |-> NoProps, e |-> <<>>, proto |-> <<>>]

Obj(f) == [t |-> "obj", p |-> "", f |-> f, e |-> <<>>, proto |-> <<>>]

Arr(e) == [t |-> "arr", p |-> "", f |-> NoProps, e |-> e, proto |-> <<>>]

PNull == Prim("null")
POne == Prim("1")
Undefined == Prim("undefined")
ObjectPrototype == [t |-> "objproto", p |-> "", f |-> NoProps, e |-> <<>>, proto |-> <<>>]
FnObject == [t |-> "fn", p |-> "", f |-> NoProps, e |-> <<>>, proto |-> <<>>]

EmptyObj == Obj(NoProps)

Prop(k, v) == [x \in {k} |-> v]

Prop2(k1, v1, k2, v2) == [x \in {k1, k2} |-> IF x = k1 THEN v1 ELSE v2]

\* Boolean(v)
Truthy(v) == ~(v.t = "prim" /\ v.p \in {"null", "undefined", "", "false", "0"})

\* item && typeof item === 'object' && !Array.isArray(item)
isObject(item) == item.t \in {"obj", "objproto"}

\* Mutant: the copy of the target is left out, the result starts empty.
Spread_empty(v) == EmptyObj

\* {...v}: the own enumerable properties of v, on a fresh plain object
Spread(v) ==
    CASE v.t = "obj" -> Obj(v.f)
      [] v.t = "arr" -> Obj([k \in {"0"} \cap (IF Len(v.e) > 0 THEN {"0"} ELSE {}) |-> v.e[1]])
      [] OTHER -> EmptyObj

\* key in target, for a target that is an object
HasIn(target, key) ==
    \/ key \in DOMAIN target.f
    \/ target.proto = <<>> /\ key \in {"constructor", "__proto__"}

\* target[key]
Get(target, key) ==
    IF key \in DOMAIN target.f THEN target.f[key]
    ELSE IF target.t = "objproto"
    THEN (IF key = "constructor" THEN FnObject
          ELSE IF key = "__proto__" THEN PNull ELSE Undefined)
    ELSE IF target.t = "obj" /\ target.proto = <<>>
    THEN (IF key = "constructor" THEN FnObject
          ELSE IF key = "__proto__" THEN ObjectPrototype ELSE Undefined)
    ELSE Undefined

\* =========================================================================
\* config/secureDeepMerge.js
\* =========================================================================
\* isSafeKey(key)
isSafeKey(key) == key \notin {"__proto__", "constructor", "prototype"}

RECURSIVE secureDeepMerge(_, _)
\* secureDeepMerge(target, source)
secureDeepMerge(target, source) ==
    LET result == Spread(target) IN
    IF source.t = "obj"
    THEN LET keys == {k \in DOMAIN source.f : isSafeKey(k)}
             old(k) == IF k \in DOMAIN result.f /\ Truthy(result.f[k]) THEN result.f[k] ELSE EmptyObj
         IN Obj([k \in DOMAIN result.f \cup keys |->
                    IF k \in keys
                    THEN (IF source.f[k].t = "obj"
                          THEN secureDeepMerge(old(k), source.f[k])
                          ELSE source.f[k])
                    ELSE result.f[k]])
    ELSE result

\* =========================================================================
\* config/index.js : deepMerge
\* =========================================================================
RECURSIVE deepMerge(_, _)
\* deepMerge(target, source); output[key] = v with key '__proto__' on an
\* object without that own property replaces the prototype when v is an
\* object or null and does nothing otherwise
deepMerge(target, source) ==
    LET output == Spread(target) IN
    IF isObject(target) /\ isObject(source)
    THEN LET value(k) ==
                 IF isObject(source.f[k])
                 THEN (IF ~HasIn(target, k) THEN source.f[k]
                       ELSE deepMerge(Get(target, k), source.f[k]))
                 ELSE source.f[k]
             setter == "__proto__" \in DOMAIN source.f /\ "__proto__" \notin DOMAIN output.f
             own == IF setter THEN (DOMAIN source.f) \ {"__proto__"} ELSE DOMAIN source.f
             merged == [k \in DOMAIN output.f \cup own |->
                           IF k \in own THEN value(k) ELSE output.f[k]]
         IN IF setter /\ (value("__proto__").t # "prim" \/ value("__proto__") = PNull)
            THEN [Obj(merged) EXCEPT !.proto = <<value("__proto__")>>]
            ELSE Obj(merged)
    ELSE output

\* the default configuration tables, reduced to one category
defaultConfig == Obj(Prop("categories", Obj(Prop("general", POne))))

\* an object from its set of <<key, value>> pairs
ObjOf(pairs) == Obj([k \in {q[1] : q \in pairs} |-> (CHOOSE q \in pairs : q[1] = k)[2]])

\* an array of strings
Strings(names) == Arr([i \in 1..Len(names) |-> Prim(names[i])])

\* config/contactSchemas.js defaultContactSchema (lines 180-203), reduced to
\* one category with two fields, their field configurations and the
\* reCAPTCHA settings
defaultContactSchema ==
    ObjOf({<<"categories",
             Obj(Prop("general", ObjOf({<<"label", Prim("General Inquiry")>>,
                                        <<"fields", Strings(<<"name", "email">>)>>})))>>,
           <<"fieldConfigs", ObjOf({<<"name", EmptyObj>>, <<"email", EmptyObj>>})>>,
           <<"recaptcha", ObjOf({<<"enabled", Prim("false")>>, <<"siteKey", Prim("")>>})>>})

\* config/index.js initContactFormConfig(userConfig = {}): the merged configuration
initContactFormConfig_index(userConfig) ==
    deepMerge(defaultConfig, IF userConfig = Undefined THEN EmptyObj ELSE userConfig)

\* config/contactSchemas.js initContactFormConfig(userConfig): the merged configuration
initContactFormConfig_schemas(userConfig) ==
    secureDeepMerge(defaultContactSchema, userConfig)

\* ---- config/contactSchemas.js : validateContactConfig(config)
\* the name of the i-th index of an array
IndexKey(i) == CASE i = 1 -> "0" [] i = 2 -> "1" [] OTHER -> "2"

\* Object.entries(v) of a value that is not null or undefined, as a set of
\* <<key, value>> pairs
Entries(v) ==
    CASE v.t = "obj" -> {<<k, v.f[k]>> : k \in DOMAIN v.f}
      [] v.t = "arr" -> {<<IndexKey(i), v.e[i]>> : i \in 1..Len(v.e)}
      [] OTHER -> {}

\* v[key] of a value that is not null or undefined: an own member, or one
\* inherited from the prototype of an array or of a primitive's wrapper
Member(v, key) ==
    CASE v.t \in {"obj", "objproto"} -> Get(v, key)
      [] v.t = "arr" ->
           IF \E i \in 1..Len(v.e) : IndexKey(i) = key
           THEN v.e[CHOOSE i \in 1..Len(v.e) : IndexKey(i) = key]
           ELSE IF key \in {"constructor", "__proto__"} THEN FnObject ELSE Undefined
      [] OTHER -> IF key \in {"constructor", "__proto__"} THEN FnObject ELSE Undefined

\* the property key an array element of `fields` becomes
FieldKey(v) == IF v.t = "prim" THEN v.p ELSE "[object Object]"

\* reading a property of null or undefined throws a TypeError
IsNullish(v) == v.t = "prim" /\ v.p \in {"null", "undefined"}

Warning(kind, key) == [kind |-> kind, key |-> key]

ValidationResult(threw, errors) == [threw |-> threw, valid |-> ~threw /\ errors = {}, errors |-> errors]

NoValidation == ValidationResult(FALSE, {})

\* !category.label (line 227)
LabelMissing(category) == ~Truthy(Member(category, "label"))

\* validateContactConfig(config) (lines 215-263); the warnings are distinct
\* texts, so the list is given as the set of its elements
validateContactConfig(config) ==
    LET categories == Member(config, "categories")
        cats == IF Truthy(categories) THEN Entries(categories) ELSE {}
        fieldsOf(category) == Member(category, "fields")
        hasFields(category) == fieldsOf(category).t = "arr" /\ Len(fieldsOf(category).e) > 0
        usedFields == UNION {{FieldKey(fieldsOf(c[2]).e[i]) : i \in 1..Len(fieldsOf(c[2]).e)} :
                                c \in {d \in cats : hasFields(d[2])}}
        fieldConfigs == Member(config, "fieldConfigs")
        recaptcha == Member(config, "recaptcha")
    IN
    IF \E c \in cats : IsNullish(c[2])
    THEN ValidationResult(TRUE, {})
    ELSE ValidationResult(FALSE,
           (IF cats = {} THEN {Warning("noCategories", "")} ELSE {})
           \cup {Warning("label", c[1]) : c \in {d \in cats : LabelMissing(d[2])}}
           \cup {Warning("fields", c[1]) : c \in {d \in cats : ~hasFields(d[2])}}
           \cup {Warning("fieldConfig", f) :
                    f \in {g \in usedFields :
                              ~Truthy(fieldConfigs) \/ ~Truthy(Member(fieldConfigs, g))}}
           \cup (IF /\ Truthy(recaptcha)
                    /\ Truthy(Member(recaptcha, "enabled"))
                    /\ ~Truthy(Member(recaptcha, "siteKey"))
                 THEN {Warning("recaptcha", "")} ELSE {}))

\* ---- bounded user configurations for config/contactSchemas.js
FieldLists21 ==
    {<<>>, <<"name">>, <<"nickname">>, <<"constructor">>, <<"name", "nickname">>}

\* a category as the user writes it: null, or an object with or without a
\* label and a fields list
UserCategories ==
    {PNull}
    \cup {ObjOf(l \cup f) :
            l \in {{}, {<<"label", Prim("")>>}, {<<"label", Prim("Extra")>>}},
            f \in {{}} \cup {{<<"fields", Strings(names)>>} : names \in FieldLists21}}

Labelled(names) == ObjOf({<<"label", Prim("Extra")>>, <<"fields", Strings(names)>>})

\* userConfig.categories: not given, null, an empty array, a change to the
\* default category, one more category, or two more naming the same field
UserCategoryTables ==
    {{}, {<<"categories", PNull>>}, {<<"categories", Arr(<<>>)>>}}
    \cup {{<<"categories", Obj(Prop(k, c))>>} : k \in {"general", "extra"}, c \in UserCategories}
    \cup {{<<"categories", ObjOf({<<"extra", Labelled(<<"nickname">>)>>,
                                   <<"other", Labelled(<<"nickname">>)>>})>>}}

UserFieldConfigs ==
    {{}, {<<"fieldConfigs", PNull>>}, {<<"fieldConfigs", Obj(Prop("nickname", EmptyObj))>>}}

UserRecaptcha ==
    {{},
     {<<"recaptcha", Obj(Prop("enabled", Prim("true")))>>},
     {<<"recaptcha", ObjOf({<<"enabled", Prim("true")>>, <<"siteKey", Prim("6Lc")>>})>>}}

UserConfigs ==
    {ObjOf(c \cup f \cup r) : c \in UserCategoryTables, f \in UserFieldConfigs, r \in UserRecaptcha}

\* ---- bounded inputs
MergeKeys == {"categories", "general", "__proto__", "constructor", "prototype"}

OneKeyObjs(vals) == {EmptyObj} \cup {Obj(Prop(k, v)) : k \in MergeKeys, v \in vals}

\* values that can sit under a key: primitives, objects with at most one key,
\* arrays of at most one such object
InnerValues ==
    LET objs == OneKeyObjs({POne}) IN
    {POne, PNull} \cup objs \cup {Arr(<<o>>) : o \in objs} \cup {Arr(<<>>)}

MergeTargets == OneKeyObjs(InnerValues) \cup {defaultContactSchema}

MergeSources ==
    OneKeyObjs(InnerValues)
    \cup {Obj(Prop2("categories", v1, k, v2)) :
             v1 \in InnerValues, k \in {"__proto__", "prototype"}, v2 \in {POne, EmptyObj}}
    \cup {Undefined, PNull, Arr(<<>>)}

RECURSIVE HasUnsafeKey(_)
\* v holds an own key named __proto__, constructor or prototype at some
\* depth (inside objects or arrays), or an object whose prototype was
\* replaced through a __proto__ key
HasUnsafeKey(v) ==
    CASE v.t = "obj" ->
           \/ DOMAIN v.f \cap {"__proto__", "constructor", "prototype"} # {}
           \/ \E k \in DOMAIN v.f : HasUnsafeKey(v.f[k])
           \/ v.proto # <<>>
      [] v.t = "arr" -> \E i \in 1..Len(v.e) : HasUnsafeKey(v.e[i])
      [] OTHER -> FALSE

\* =========================================================================
\* Submitted values and the validation schemas of config/index.js
\* =========================================================================
\* A submitted value: a string (its characters), a boolean, or undefined
\* (the record has no such key).
Str(chars) == [t |-> "string", s |-> chars, b |-> FALSE]
Bool(b) == [t |-> "boolean", s |-> <<>>, b |-> b]
Missing == [t |-> "undefined", s |-> <<>>, b |-> FALSE]

V_empty == Str(<<>>)
V_blank == Str(<<" ", "\t">>)
V_hi == Str(<<"h", "i">>)
V_email == Str(<<"a", "@", "b", ".", "c">>)
V_on == Str(<<"o", "n">>)
V_long == Str(<<"t", "o", "o", "l", "o", "n", "g">>)

\* what a field of a FormData can hold (files apart), and what a field of a
\* JSON record can hold
FormDataValues == {V_empty, V_blank, V_hi, V_email, V_on, V_long}
RecordValues == FormDataValues \cup {Bool(TRUE), Bool(FALSE)}

\* data[fieldName]
ValueOf(data, fieldName) == IF fieldName \in DOMAIN data THEN data[fieldName] ELSE Missing

RECURSIVE TrimStart(_)
TrimStart(chars) ==
    IF chars # <<>> /\ IsWhitespace(Head(chars)) THEN TrimStart(Tail(chars)) ELSE chars

RECURSIVE TrimEnd(_)
TrimEnd(chars) ==
    IF chars # <<>> /\ IsWhitespace(chars[Len(chars)])
    THEN TrimEnd(SubSeq(chars, 1, Len(chars) - 1)) ELSE chars

\* String.prototype.trim
Trim(chars) == TrimEnd(TrimStart(chars))

\* z.string().email(): something@something.something, no whitespace
IsEmail(chars) ==
    /\ \A i \in 1..Len(chars) : ~IsWhitespace(chars[i])
    /\ Cardinality({i \in 1..Len(chars) : chars[i] = "@"}) = 1
    /\ \E i \in 2..Len(chars) :
          /\ chars[i] = "@"
          /\ \E j \in (i + 2)..(Len(chars) - 1) : chars[j] = "."

\* the field configurations of the configuration under test (defaults merged
\* with the user's): type, required, maxlength (0: none)
FieldConfig(type, required, maxlength) == [type |-> type, required |-> required, maxlength |-> maxlength]

fieldConfigs ==
    [f \in {"name", "email", "phone", "newsletter", "coppa"} |->
        CASE f = "name" -> FieldConfig("text", TRUE, 5)
          [] f = "email" -> FieldConfig("email", TRUE, 0)
          [] f = "phone" -> FieldConfig("tel", FALSE, 0)
          [] f = "newsletter" -> FieldConfig("checkbox", FALSE, 0)
          [] OTHER -> FieldConfig("checkbox", TRUE, 0)]

\* the names a category can declare: configured fields, a field with no
\* configuration, and a field named like a member of Object.prototype
FieldNames == DOMAIN fieldConfigs \cup {"ghost", "constructor"}

InheritedNames == {"constructor"}

\* the issues a field schema raises for a value, in the order the checks
\* were chained (lines 205-236)
FieldIssues(fieldConfig, v) ==
    IF fieldConfig.type = "checkbox"
    THEN IF v = V_on \/ v = Bool(TRUE) THEN <<>> ELSE <<"Invalid input">>
    ELSE IF v.t = "undefined" THEN <<"Required">>
    ELSE IF v.t # "string" THEN <<"Expected string">>
    ELSE (IF fieldConfig.type = "email" /\ ~IsEmail(v.s) THEN <<"email">> ELSE <<>>)
         \o (IF fieldConfig.required /\ Len(v.s) < 1 THEN <<"required">> ELSE <<>>)
         \o (IF fieldConfig.maxlength # 0 /\ fieldConfig.type \in {"email", "tel", "text", "textarea", "url"}
                /\ Len(v.s) > fieldConfig.maxlength
             THEN <<"Maximum">> ELSE <<>>)

\* a schema: a field schema, the attachments schema, or a value that is no
\* schema at all
FieldSchema(fieldConfig) == [kind |-> "field", config |-> fieldConfig]
AttachmentsSchema == [kind |-> "attachments", config |-> FieldConfig("file", FALSE, 0)]
NotASchema == [kind |-> "notASchema", config |-> FieldConfig("none", FALSE, 0)]

\* schemas (lines 222-249): one schema per fieldConfigs entry, and attachments
FieldSchemas(configs) ==
    [f \in DOMAIN configs \cup {"attachments"} |->
        IF f = "attachments" THEN AttachmentsSchema ELSE FieldSchema(configs[f])]

\* schemas[fieldName] is truthy: an own key, or a member inherited from
\* Object.prototype
SchemaLookup(schemas, fieldName) == fieldName \in DOMAIN schemas \/ fieldName \in InheritedNames

\* categoryFields (lines 252-257): the shape of one category schema
CategoryShape(schemas, fields) ==
    [f \in {x \in fields : SchemaLookup(schemas, x)} \cup {"attachments"} |->
        IF f \in DOMAIN schemas THEN schemas[f] ELSE NotASchema]

\* buildValidationSchemas(config).categories (lines 251-261)
buildValidationSchemas(config) ==
    [c \in DOMAIN config.categories |->
        CategoryShape(FieldSchemas(config.fieldConfigs), config.categories[c])]

\* schema.safeParse(formDataObj) for an object schema of the given shape:
\* "throws" when a member of the shape is no schema, else the issues by path,
\* a later issue of a path replacing an earlier one (lines 100-106)
SafeParse(shape, data) ==
    IF \E f \in DOMAIN shape : shape[f].kind = "notASchema"
    THEN [threw |-> TRUE, errors |-> NoErrors]
    ELSE LET issues(f) == IF shape[f].kind = "attachments" THEN <<>>
                          ELSE FieldIssues(shape[f].config, ValueOf(data, f))
             failing == {f \in DOMAIN shape : issues(f) # <<>>}
         IN [threw |-> FALSE, errors |-> [f \in failing |-> issues(f)[Len(issues(f))]]]

ParseResult(data, errors) == [data |-> data, errors |-> errors]

\* config/index.js formDataParser(formData, category) (lines 70-114);
\* formData holds no csrf key and no attachments here
formDataParser_index(schemas, formData, category) ==
    IF category \in InheritedNames \/ (category \notin DOMAIN schemas /\ "general" \notin DOMAIN schemas)
    THEN ParseResult("empty", ErrProcessing)
    ELSE LET shape == schemas[IF category \in DOMAIN schemas THEN category ELSE "general"]
             r == SafeParse(shape, formData)
         IN IF r.threw THEN ParseResult("empty", ErrProcessing)
            ELSE IF r.errors = NoErrors THEN ParseResult("parsed", NoErrors)
            ELSE ParseResult("raw", r.errors)

\* ------------------------------------------------ config/contactSchemas.js
\* !value
Falsy(v) == v.t = "undefined" \/ (v.t = "string" /\ v.s = <<>>) \/ (v.t = "boolean" /\ ~v.b)

\* Mutant: a whitespace-only value counts as given.
IsUnfilled_noTrim(v) == Falsy(v)

\* !value || (typeof value === 'string' && value.trim() === '') (line 296)
IsUnfilled(v) == Falsy(v) \/ (v.t = "string" /\ Trim(v.s) = <<>>)

\* config.fieldConfigs?.[fieldName] && fieldConfig.required (lines 293-294);
\* a member inherited from Object.prototype has no `required`
ConfiguredRequired(config, fieldName) ==
    fieldName \in DOMAIN config.fieldConfigs /\ config.fieldConfigs[fieldName].required

\* the validator returned by getValidatorForCategory(config, categorySlug)
\* (lines 277-304), applied to data; the category is one of the configuration
validator(config, categorySlug, data) ==
    [f \in {x \in config.categories[categorySlug] :
               ConfiguredRequired(config, x) /\ IsUnfilled(ValueOf(data, x))} |-> "is required"]

\* config.getValidatorForCategory?.(categorySlug) (line 332): config is the
\* merged configuration, which has no member getValidatorForCategory
MergedConfigHasValidator == FALSE

\* config/contactSchemas.js formDataParser(formData, categorySlug) (lines 326-340)
formDataParser_schemas(config, formData, categorySlug) ==
    IF MergedConfigHasValidator /\ categorySlug \in DOMAIN config.categories
    THEN ParseResult("raw", validator(config, categorySlug, formData))
    ELSE ParseResult("raw", NoErrors)

\* =========================================================================
\* services/rateLimiterService.js
\* =========================================================================
DEFAULT_TIME_WINDOWS_SHORT == 60000
DEFAULT_TIME_WINDOWS_MEDIUM == 600000
DEFAULT_TIME_WINDOWS_LONG == 3600000

DEFAULT_RATE_LIMITS_SHORT == 5
DEFAULT_RATE_LIMITS_MEDIUM == 15
DEFAULT_RATE_LIMITS_LONG == 30

MapGet(m, k) == IF k \in DOMAIN m THEN m[k] ELSE <<>>

RECURSIVE Digits(_)
\* String(n): the decimal digits of n
Digits(n) == IF n < 10 THEN <<n>> ELSE Append(Digits(n \div 10), n % 10)

RECURSIVE StringLess(_, _)
\* a < b for strings, compared code unit by code unit
StringLess(a, b) ==
    IF b = <<>> THEN FALSE
    ELSE IF a = <<>> THEN TRUE
    ELSE IF Head(a) # Head(b) THEN Head(a) < Head(b)
    ELSE StringLess(Tail(a), Tail(b))

\* array.sort()[0]: sort() without a comparator orders the elements by their
\* string forms; undefined for an empty array
SortFirst(array) ==
    LET S == {array[i] : i \in 1..Len(array)} IN
    CHOOSE x \in S : \A y \in S : x = y \/ StringLess(Digits(x), Digits(y))

\* timestamps.filter(timestamp => now - timestamp < window)
InWindow(timestamps, t, window) ==
    SelectSeq(timestamps, LAMBDA timestamp : t - timestamp < window)

\* Math.ceil(n / 1000)
CeilSeconds(n) == (n + 999) \div 1000

AllowedResult ==
    [allowed |-> TRUE, retryAfter |-> 0, limitType |-> "none", windowMs |-> 0, maxRequests |-> 0]

DeniedResult(timestamps, t, window, limitType, windowMs, maxRequests) ==
    LET oldestInWindow == SortFirst(InWindow(timestamps, t, window)) IN
    [allowed |-> FALSE,
     retryAfter |-> CeilSeconds(window - (t - oldestInWindow)),
     limitType |-> limitType, windowMs |-> windowMs, maxRequests |-> maxRequests]

\* Mutant: a window is exceeded as soon as the limit is reached.
Exceeds_atLimit(count, limit) == count >= limit

\* count > limit
Exceeds(count, limit) == count > limit

\* cleanupRateLimits(): both maps after the sweep
FilterMap(m, t) ==
    LET kept(k) == InWindow(m[k], t, DEFAULT_TIME_WINDOWS_LONG) IN
    [k \in {x \in DOMAIN m : kept(x) # <<>>} |-> kept(k)]

cleanupRateLimits(ip, form, t) == [ip |-> FilterMap(ip, t), form |-> FilterMap(form, t)]

\* rateLimitRequest(identifier, action): the map it leaves and its result;
\* identifier "" stands for a missing (falsy) identifier
rateLimitRequest(ip, identifier, t) ==
    IF identifier = ""
    THEN [ip |-> ip, res |-> AllowedResult]
    ELSE LET timestamps == Append(MapGet(ip, identifier), t)
             shortWindowCount == Len(InWindow(timestamps, t, DEFAULT_TIME_WINDOWS_SHORT))
             mediumWindowCount == Len(InWindow(timestamps, t, DEFAULT_TIME_WINDOWS_MEDIUM))
             longWindowCount == Len(InWindow(timestamps, t, DEFAULT_TIME_WINDOWS_LONG))
             res == IF Exceeds(shortWindowCount, DEFAULT_RATE_LIMITS_SHORT)
                    THEN DeniedResult(timestamps, t, DEFAULT_TIME_WINDOWS_SHORT, "short", 0, 0)
                    ELSE IF Exceeds(mediumWindowCount, DEFAULT_RATE_LIMITS_MEDIUM)
                    THEN DeniedResult(timestamps, t, DEFAULT_TIME_WINDOWS_MEDIUM, "medium", 0, 0)
                    ELSE IF Exceeds(longWindowCount, DEFAULT_RATE_LIMITS_LONG)
                    THEN DeniedResult(timestamps, t, DEFAULT_TIME_WINDOWS_LONG, "long", 0, 0)
                    ELSE AllowedResult
         IN [ip |-> MapSet(ip, identifier, timestamps), res |-> res]

\* `email:${ email }:${ formType }`
EmailKey(email, formType) == <<"email", email, formType>>

\* Mutant: the IP check is never made.
IpCheckApplies_never(options, clientAddress) == FALSE

\* !options.skipIpCheck && clientAddress
IpCheckApplies(options, clientAddress) == ~options.skipIpCheck /\ clientAddress # ""

\* rateLimitFormSubmission(clientAddress, email, formType, options): the maps
\* it leaves, its result, and what it evaluated.  email "" stands for a
\* missing (falsy) email.
rateLimitFormSubmission(ip, form, clientAddress, email, formType, options, t) ==
    LET ipChecked == IpCheckApplies(options, clientAddress)
        ipStep == IF ipChecked THEN rateLimitRequest(ip, clientAddress, t)
                  ELSE [ip |-> ip, res |-> AllowedResult]
    IN
    IF ~ipStep.res.allowed
    THEN [ip |-> ipStep.ip, form |-> form, res |-> ipStep.res,
          ipChecked |-> ipChecked, emailChecked |-> FALSE]
    ELSE IF email # ""
    THEN LET emailKey == EmailKey(email, formType)
             timestamps == Append(MapGet(form, emailKey), t)
             windowCount == Len(InWindow(timestamps, t, options.windowMs))
         IN [ip |-> ipStep.ip,
             form |-> MapSet(form, emailKey, timestamps),
             res |-> IF Exceeds(windowCount, options.maxRequests)
                     THEN DeniedResult(timestamps, t, options.windowMs, "email",
                                       options.windowMs, options.maxRequests)
                     ELSE AllowedResult,
             ipChecked |-> ipChecked, emailChecked |-> TRUE]
    ELSE [ip |-> ipStep.ip, form |-> form, res |-> AllowedResult,
          ipChecked |-> ipChecked, emailChecked |-> FALSE]

\* =========================================================================
\* handlers/contactFormHandler.js : createContactApiHandler(options)
\* =========================================================================
\* options: the rate limit settings and which optional callbacks are given
ApiOptions ==
    {[rateLimitMaxRequests |-> 3, rateLimitWindowMs |-> 3600000,
      customValidation |-> FALSE, customSuccessHandler |-> FALSE],
     [rateLimitMaxRequests |-> 1, rateLimitWindowMs |-> 3600000,
      customValidation |-> FALSE, customSuccessHandler |-> FALSE],
     [rateLimitMaxRequests |-> 3, rateLimitWindowMs |-> 3600000,
      customValidation |-> TRUE, customSuccessHandler |-> TRUE]}

DefaultApiOptions ==
    [rateLimitMaxRequests |-> 3, rateLimitWindowMs |-> 3600000,
     customValidation |-> FALSE, customSuccessHandler |-> FALSE]

ApiResponse(status, body, retryAfter) == [status |-> status, body |-> body, retryAfter |-> retryAfter]

ApiOutcome(resp, ip, form, reached) == [resp |-> resp, ip |-> ip, form |-> form, reached |-> reached]

\* Mutant: every request is verified, with or without a token.
RecaptchaGate_always(in) == TRUE

\* if (sanitizedData.recaptchaToken) (line 81)
RecaptchaGate(in) == in.recaptchaToken

\* the handler from the body parse on (lines 65-201); errors thrown on the
\* way reach the catch at 203-210
AfterRateLimit(options, in, ip, form) ==
    LET reached0 == {"rateLimitFormSubmission"}
        error500(reached) == ApiOutcome(ApiResponse(500, "error", 0), ip, form, reached)
    IN
    IF in.body = "invalid"
    THEN ApiOutcome(ApiResponse(400, "invalidFormat", 0), ip, form, reached0)
    ELSE IF in.body = "null"
    THEN error500(reached0)
    ELSE LET reached1 == IF RecaptchaGate(in) THEN reached0 \cup {"verifyRecaptchaToken"} ELSE reached0 IN
         IF RecaptchaGate(in) /\ ~in.verify
         THEN ApiOutcome(ApiResponse(400, "recaptcha", 0), ip, form, reached1)
         ELSE LET reached2 == reached1 \cup {"validation"} IN
              IF in.fields = "nonstring"
              THEN error500(reached2)
              ELSE LET reached3 == IF options.customValidation
                                   THEN reached2 \cup {"customValidation"} ELSE reached2
                   IN
                   IF options.customValidation /\ in.customValidation = "throws"
                   THEN error500(reached3)
                   ELSE IF in.fields = "blank" \/ (options.customValidation /\ in.customValidation = "errors")
                   THEN ApiOutcome(ApiResponse(400, "validation", 0), ip, form, reached3)
                   ELSE LET reached4 == IF options.customSuccessHandler
                                        THEN reached3 \cup {"customSuccessHandler"} ELSE reached3
                        IN
                        IF options.customSuccessHandler /\ in.customSuccess = "result"
                        THEN ApiOutcome(ApiResponse(200, "customSuccess", 0), ip, form, reached4)
                        ELSE ApiOutcome(ApiResponse(200, "success", 0), ip, form,
                                        reached4 \cup {"sendEmail"})

\* the address the handler limits by: getClientAddress ? getClientAddress() : 'unknown'
ClientAddress(in) == IF in.getClientAddress = "absent" THEN "unknown" ELSE in.getClientAddress

\* lines 43-52: rateLimitFormSubmission(clientAddress, null, 'contact', {...})
ApiRateLimit(ip, form, clientAddress, options, t) ==
    rateLimitFormSubmission(ip, form, clientAddress, "", "contact",
        [maxRequests |-> options.rateLimitMaxRequests, windowMs |-> options.rateLimitWindowMs,
         skipIpCheck |-> FALSE], t)

\* the POST handler returned by createContactApiHandler(options)
contactApiHandler(options, in, ip, form, t) ==
    IF in.getClientAddress = "throws"
    THEN ApiOutcome(ApiResponse(500, "error", 0), ip, form, {})
    ELSE LET limit == CHOOSE l \in {ApiRateLimit(ip, form, ClientAddress(in), options, t)} : TRUE IN
         IF ~limit.res.allowed
         THEN ApiOutcome(ApiResponse(429, "rateLimit", limit.res.retryAfter),
                         limit.ip, limit.form, {"rateLimitFormSubmission"})
         ELSE AfterRateLimit(options, in, limit.ip, limit.form)

DefaultApiInput ==
    [getClientAddress |-> "absent", body |-> "object", recaptchaToken |-> FALSE, verify |-> TRUE,
     fields |-> "valid", customValidation |-> "none", customSuccess |-> "nothing", sendEmail |-> "ok",
     message |-> "SMTP connection refused"]

\* =========================================================================
\* handlers/index.js : createContactPostHandler(options)
\* =========================================================================
\* messages of the errors a callback or a service can throw
Messages == {"SMTP connection refused", "ETIMEDOUT 10.0.0.5:465", "reCAPTCHA verification failed"}

\* options: which of the optional callbacks are functions, and
\* finalConfig.recaptcha.enabled
PostOptions ==
    [rateLimiter : BOOLEAN, recaptchaEnabled : BOOLEAN, recaptchaVerifier : BOOLEAN,
     successHandler : BOOLEAN, errorHandler : BOOLEAN]

DefaultPostOptions ==
    [rateLimiter |-> FALSE, recaptchaEnabled |-> FALSE, recaptchaVerifier |-> FALSE,
     successHandler |-> FALSE, errorHandler |-> FALSE]

\* one request: what request.json() gives, what each callback does when it
\* is called, and the message of whatever is thrown on the way
DefaultPostInput ==
    [body |-> "object", rateLimit |-> "allowed", verify |-> "valid", validation |-> "valid",
     success |-> "result", errorStatus |-> 0, message |-> "SMTP connection refused"]

PostOutcome(resp, reached) == [resp |-> resp, reached |-> reached]

\* the outer catch (lines 161-173): errorHandler(error) decides the body and
\* the status (500 when it gives none); without it the fixed 500 response
PostCatch(options, in, error, reached) ==
    IF options.errorHandler
    THEN PostOutcome(ApiResponse(IF in.errorStatus = 0 THEN 500 ELSE in.errorStatus, "custom", 0),
                     reached \cup {"errorHandler"})
    ELSE PostOutcome(ApiResponse(500, "error", 0), reached)

\* the POST handler returned by createContactPostHandler(options) (lines 89-174)
contactPostHandler(options, in) ==
    LET error == [message |-> in.message, status |-> 0] IN
    IF in.body # "object"
    THEN \* request.json() rejects, or the body is null and cannot be destructured
         PostCatch(options, in, error, {})
    ELSE LET reached1 == IF options.rateLimiter THEN {"rateLimiter"} ELSE {} IN
         IF options.rateLimiter /\ in.rateLimit = "throws"
         THEN PostCatch(options, in, error, reached1)
         ELSE IF options.rateLimiter /\ in.rateLimit = "denied"
         THEN PostOutcome(ApiResponse(429, "rateLimit", 0), reached1)
         ELSE LET verified == options.recaptchaEnabled /\ options.recaptchaVerifier
                  reached2 == IF verified THEN reached1 \cup {"recaptchaVerifier"} ELSE reached1
              IN
              IF verified /\ in.verify = "throws"
              THEN PostCatch(options, in, error, reached2)
              ELSE IF verified /\ in.verify = "invalid"
              THEN PostOutcome(ApiResponse(403, "recaptchaVerification", 0), reached2)
              ELSE LET reached3 == reached2 \cup {"validation"} IN
                   IF in.validation = "noSchema"
                   THEN PostCatch(options, in, error, reached3)
                   ELSE IF in.validation = "invalid"
                   THEN PostOutcome(ApiResponse(400, "validation", 0), reached3)
                   ELSE IF options.successHandler
                   THEN LET reached4 == reached3 \cup {"successHandler"} IN
                        IF in.success = "result"
                        THEN PostOutcome(ApiResponse(200, "customSuccess", 0), reached4)
                        ELSE \* it throws, or returns nothing and response.message throws
                             PostCatch(options, in, error, reached4)
                   ELSE PostOutcome(ApiResponse(200, "success", 0), reached3)

\* createCategoryRouter(config): which of the optional callbacks are functions
RouterConfigs ==
    [formDataParser : BOOLEAN, createSubmissionHandler : BOOLEAN, errorHandler : BOOLEAN]

DefaultRouterConfig ==
    [formDataParser |-> FALSE, createSubmissionHandler |-> FALSE, errorHandler |-> FALSE]

DefaultInput ==
    [bodyOk |-> FALSE, csrf |-> CsrfNull, parser |-> DefaultParserOutcome,
     create |-> "nullish", handler |-> DefaultHandlerOutcome,
     errorHandler |-> "nothing", redirect |-> "redirect", slug |-> S_general]

\* The outcome of a callback that is not called is not an input.
Canonical(in, calls) ==
    /\ ("formDataParser" \notin calls) => in.parser = DefaultParserOutcome
    /\ ("createSubmissionHandler" \notin calls) => in.create = "nullish"
    /\ ("submissionHandler" \notin calls) => in.handler = DefaultHandlerOutcome
    /\ ("errorHandler" \notin calls) => in.errorHandler = "nothing"
    /\ ("line928" \notin calls) => in.redirect = "redirect"

\* ------------------------------------------------------------------ state
NoOp ==
    [op |-> "none", token |-> CsrfNull, at |-> 0, ok |-> FALSE, nth |-> 0,
     cfg |-> DefaultRouterConfig, in |-> DefaultInput, resp |-> CustomResponse, calls |-> {}]

csrfVars == <<tokenStore, issuedAt, nValidations>>
clockVars == <<now, ticks>>
mergeVars == <<mIn, mOut>>
rateVars == <<ipLimits, formSubmissionLimits, ipCalls, formCalls, apiReqs, nCalls, rl, api>>
formVars == <<conf, val>>
handlerVars == <<post, runs>>
vars == <<now, ticks, tokenStore, issuedAt, nValidations, last, mIn, mOut,
          ipLimits, formSubmissionLimits, ipCalls, formCalls, apiReqs, nCalls, rl, api,
          conf, val, post, runs>>

InitClock == now = StartTime /\ ticks = 0

InitCsrf ==
    /\ tokenStore = EmptyMap
    /\ issuedAt = EmptyMap
    /\ nValidations = [f \in Tokens |-> 0]

\* history bookkeeping of one validateCsrfToken(token) call
CountValidation(token) ==
    nValidations' = IF token \in Tokens
                    THEN [nValidations EXCEPT ![token] = Bump(@)]
                    ELSE nValidations

Nth(token) == IF token \in Tokens THEN Bump(nValidations[token]) ELSE 1

\* ---------------------------------------------------------------- actions
\* generateSecureToken(): 32 random bytes; a value never returned before
\* (the labels of the tokens are interchangeable, so they are taken in order)
FreshTokens ==
    IF "tokA" \notin DOMAIN issuedAt THEN {"tokA"}
    ELSE Tokens \ DOMAIN issuedAt

\* generateCsrfToken(): a fresh random token, expiring TOKEN_EXPIRY_MS from
\* now; with probability 0.1 the expired tokens are swept.
GenerateCsrfToken ==
    \E token \in FreshTokens, sweep \in BOOLEAN :
        LET stored == MapSet(tokenStore, token, now + TOKEN_EXPIRY_MS) IN
        /\ tokenStore' = IF sweep THEN cleanupExpiredTokens(stored, now) ELSE stored
        /\ issuedAt' = MapSet(issuedAt, token, now)
        /\ nValidations' = [nValidations EXCEPT ![token] = 0]
        /\ last' = [NoOp EXCEPT !.op = "generate", !.token = token, !.at = now]
        /\ UNCHANGED clockVars

\* a direct validateCsrfToken(token) call (middleware, csrf manager, tests)
ValidateCsrfTokenCall ==
    \E token \in CsrfFields :
        LET v == validateCsrfToken(tokenStore, token, now) IN
        /\ tokenStore' = v.store
        /\ CountValidation(token)
        /\ last' = [NoOp EXCEPT !.op = "validate", !.token = token, !.at = now,
                                 !.ok = v.ok, !.nth = Nth(token)]
        /\ UNCHANGED <<issuedAt, clockVars>>

\* one form POST handled by the handleSubmission of a router built with cfg
HandleSubmissionFor(slugs) ==
    \E slug \in slugs :
    \E cfg \in RouterConfigs, bodyOk \in BOOLEAN :
    \E csrf \in (IF bodyOk THEN CsrfFields ELSE {CsrfNull}) :
    LET pass == bodyOk /\ validateCsrfToken(tokenStore, csrf, now).ok IN
    \E parser \in (IF pass /\ cfg.formDataParser THEN ParserOutcomes ELSE {DefaultParserOutcome}) :
    \E create \in (IF pass /\ cfg.createSubmissionHandler THEN CreateOutcomes ELSE {"nullish"}) :
    \E handler \in (IF pass /\ create = "handler" THEN HandlerOutcomes ELSE {DefaultHandlerOutcome}) :
    \E errorHandler \in (IF pass /\ cfg.errorHandler THEN ErrorHandlerOutcomes ELSE {"nothing"}) :
    \E redirect \in (IF pass THEN RedirectFns ELSE {"redirect"}) :
    \E in \in {[bodyOk |-> bodyOk, csrf |-> csrf, parser |-> parser, create |-> create,
                 handler |-> handler, errorHandler |-> errorHandler, redirect |-> redirect,
                 slug |-> slug]} :
    \E o \in {handleSubmission(cfg, tokenStore, now, in)} :
        /\ Canonical(in, o.calls)
        /\ tokenStore' = o.store
        /\ IF o.validated THEN CountValidation(csrf) ELSE UNCHANGED nValidations
        /\ last' = [op |-> "submit", token |-> csrf, at |-> now, ok |-> pass,
                    nth |-> IF o.validated THEN Nth(csrf) ELSE 0,
                    cfg |-> cfg, in |-> in, resp |-> o.resp, calls |-> o.calls]
        /\ UNCHANGED <<issuedAt, clockVars>>

\* a POST to the route of a category
HandleSubmission == HandleSubmissionFor({S_general})

\* the slugs a request can carry: a category key, the normalized label of a
\* category, its raw label, the success page, an inherited property name,
\* something else
Slugs == {S_general, S_gen_inq, L_GenInq, S_success, S_constructor, S_nope}

\* a GET handled by load
Load ==
    \E slug \in Slugs, helpers \in RedirectFns :
        /\ last' = [NoOp EXCEPT !.op = "load", !.at = now,
                                !.in = [DefaultInput EXCEPT !.slug = slug, !.redirect = helpers],
                                !.resp = load(RouterCategories, slug, helpers)]
        /\ UNCHANGED <<csrfVars, clockVars>>

CsrfTickDeltas == {1, TOKEN_EXPIRY_MS}

\* time passes
TickCsrf ==
    \E d \in CsrfTickDeltas :
        /\ ticks < MaxTicks
        /\ now' = now + d
        /\ ticks' = ticks + 1
        /\ last' = NoOp
        /\ UNCHANGED csrfVars

NoMerge == [fn |-> "none", result |-> Undefined, validation |-> NoValidation]

IdleMerge == mIn = [target |-> EmptyObj, source |-> EmptyObj] /\ mOut = NoMerge

NoRl ==
    [op |-> "none", identifier |-> "", email |-> "", formType |-> "", skipIpCheck |-> FALSE,
     maxRequests |-> 0, windowMs |-> 0, at |-> 0, res |-> AllowedResult,
     ipChecked |-> FALSE, emailChecked |-> FALSE]

NoApi == [n |-> 0, options |-> DefaultApiOptions, in |-> DefaultApiInput, at |-> 0,
          resp |-> ApiResponse(0, "none", 0), reached |-> {}]

IdleRate ==
    /\ ipLimits = <<>>
    /\ formSubmissionLimits = <<>>
    /\ ipCalls = <<>>
    /\ formCalls = <<>>
    /\ apiReqs = <<>>
    /\ nCalls = 0
    /\ rl = NoRl
    /\ api = NoApi

NoPost == [options |-> DefaultPostOptions, in |-> DefaultPostInput,
           resp |-> ApiResponse(0, "none", 0), reached |-> {}]

NoRuns == [handler |-> "none", thrower |-> "none", customErrorHandler |-> FALSE,
           messages |-> <<"", "">>,
           first |-> ApiResponse(0, "none", 0), second |-> ApiResponse(0, "none", 0)]

NoConf == [builder |-> "none", categories |-> <<>>, fieldConfigs |-> <<>>, schemas |-> <<>>]

NoVal == [op |-> "none", category |-> "", data |-> <<>>, errors |-> NoErrors,
          parsed |-> "empty", proceeds |-> FALSE]

IdleForm == conf = NoConf /\ val = NoVal

IdleHandlers == post = NoPost /\ runs = NoRuns

InitRouterSpec ==
    InitClock /\ InitCsrf /\ last = NoOp /\ IdleMerge /\ IdleRate /\ IdleForm /\ IdleHandlers

\* the router is exercised with one issued token; tokB stays a value that was
\* never issued (a forged or mistyped token)
RouterStep ==
    \/ (issuedAt = EmptyMap /\ GenerateCsrfToken)
    \/ ValidateCsrfTokenCall
    \/ HandleSubmission
    \/ TickCsrf

NextRouter == RouterStep /\ UNCHANGED <<mergeVars, rateVars, formVars, handlerVars>>

SpecRouter == InitRouterSpec /\ [][NextRouter]_vars

\* the token store on its own: any number of tokens, direct validations
CsrfStep == GenerateCsrfToken \/ ValidateCsrfTokenCall \/ TickCsrf

NextCsrf == CsrfStep /\ UNCHANGED <<mergeVars, rateVars, formVars, handlerVars>>

SpecCsrf == InitRouterSpec /\ [][NextCsrf]_vars

\* ---------------------------------------------------------------- merges
IdleCsrf == InitClock /\ InitCsrf /\ last = NoOp

InitMerge ==
    /\ mIn \in [target : MergeTargets, source : MergeSources]
    /\ mOut = NoMerge

\* secureDeepMerge(target, source)
SecureDeepMergeCall ==
    /\ mOut.fn = "none"
    /\ mOut' = [fn |-> "secureDeepMerge", result |-> secureDeepMerge(mIn.target, mIn.source),
                 validation |-> NoValidation]
    /\ UNCHANGED mIn

\* config/index.js initContactFormConfig(userConfig)
InitContactFormConfigIndex ==
    /\ mOut.fn = "none"
    /\ mIn.target = defaultConfig
    /\ mOut' = [fn |-> "config/index.js", result |-> initContactFormConfig_index(mIn.source),
                 validation |-> NoValidation]
    /\ UNCHANGED mIn

\* config/contactSchemas.js initContactFormConfig(userConfig)
InitContactFormConfigSchemas ==
    /\ mOut.fn = "none"
    /\ mIn.target = defaultContactSchema
    /\ \E config \in {initContactFormConfig_schemas(mIn.source)} :
          mOut' = [fn |-> "config/contactSchemas.js", result |-> config,
                   validation |-> validateContactConfig(config)]
    /\ UNCHANGED mIn

MergeStep == SecureDeepMergeCall \/ InitContactFormConfigIndex \/ InitContactFormConfigSchemas

NextMerge == MergeStep /\ UNCHANGED <<clockVars, csrfVars, last, rateVars, formVars, handlerVars>>

InitMergeSpec == IdleCsrf /\ IdleRate /\ IdleForm /\ IdleHandlers /\ InitMerge

SpecMerge == InitMergeSpec /\ [][NextMerge]_vars

\* config/contactSchemas.js initContactFormConfig on its own, for user
\* configurations that change categories, field configs and reCAPTCHA
InitSchema ==
    /\ mIn \in [target : {defaultContactSchema}, source : UserConfigs \cup {Undefined}]
    /\ mOut = NoMerge

SchemaStep == InitContactFormConfigSchemas

NextSchema == SchemaStep /\ UNCHANGED <<clockVars, csrfVars, last, rateVars, formVars, handlerVars>>

InitSchemaSpec == IdleCsrf /\ IdleRate /\ IdleForm /\ IdleHandlers /\ InitSchema

SpecSchema == InitSchemaSpec /\ [][NextSchema]_vars

\* ---------------------------------------------------------- rate limiter
\* Identifiers and emails; "" is a missing one.
ClientAddresses == {"", "10.0.0.1"}
Emails == {"", "a@example.com"}
FormTypes == {"contact", "feedback"}

\* the limits configured for each form type (createRateLimiter binds
\* formType, maxRequests and windowMs together)
FormOptions(formType) ==
    IF formType = "contact"
    THEN [maxRequests |-> 2, windowMs |-> 30000]
    ELSE [maxRequests |-> 1, windowMs |-> 7200000]

\* n calls made at time ts
Burst(n, ts) == [i \in 1..n |-> ts]

\* the rate limiter is started with a client that already made nLong calls
\* 50 minutes ago, nMedium calls 5 minutes ago and nShort calls 30 seconds
\* ago (rateLimitRequest records every call, allowed or denied)
RateStart == StartTime + 3000000

History(nLong, nMedium, nShort) ==
    Burst(nLong, StartTime) \o Burst(nMedium, RateStart - 300000) \o Burst(nShort, RateStart - 30000)

HistoryMap(h) == IF h = <<>> THEN <<>> ELSE [k \in {"10.0.0.1"} |-> h]

InitRateWith(histories) ==
    /\ now = RateStart
    /\ ticks = 0
    /\ \E h \in histories :
         /\ ipLimits = HistoryMap(h)
         /\ ipCalls = HistoryMap(h)
    /\ formSubmissionLimits = <<>>
    /\ formCalls = <<>>
    /\ apiReqs = <<>>
    /\ nCalls = 0
    /\ rl = NoRl
    /\ api = NoApi

IpHistories ==
    {History(nLong, nMedium, nShort) : nLong \in {0, 20}, nMedium \in {0, 5, 10}, nShort \in {0, 4, 5}}

FormHistories == {History(0, 0, 0), History(0, 0, 4), History(0, 0, 5)}

\* a direct rateLimitRequest(identifier, action) call
RateLimitRequestCall ==
    \E identifier \in ClientAddresses :
    \E r \in {rateLimitRequest(ipLimits, identifier, now)} :
        /\ nCalls < MaxCalls
        /\ nCalls' = nCalls + 1
        /\ ipLimits' = r.ip
        /\ ipCalls' = IF identifier = "" THEN ipCalls
                      ELSE MapSet(ipCalls, identifier, Append(MapGet(ipCalls, identifier), now))
        /\ rl' = [NoRl EXCEPT !.op = "request", !.identifier = identifier, !.at = now,
                              !.res = r.res, !.ipChecked = identifier # ""]
        /\ UNCHANGED <<now, ticks, formSubmissionLimits, formCalls, apiReqs, api>>

\* a rateLimitFormSubmission(clientAddress, email, formType, options) call
RateLimitFormSubmissionCall ==
    \E clientAddress \in ClientAddresses, email \in Emails :
    \E formType \in (IF email = "" THEN {"contact"} ELSE FormTypes) :
    \E skipIpCheck \in (IF clientAddress = "" THEN {FALSE} ELSE BOOLEAN) :
    \E options \in {[maxRequests |-> FormOptions(formType).maxRequests,
                      windowMs |-> FormOptions(formType).windowMs,
                      skipIpCheck |-> skipIpCheck]} :
    \E r \in {rateLimitFormSubmission(ipLimits, formSubmissionLimits, clientAddress,
                                      email, formType, options, now)} :
        LET key == EmailKey(email, formType) IN
        /\ nCalls < MaxCalls
        /\ nCalls' = nCalls + 1
        /\ ipLimits' = r.ip
        /\ formSubmissionLimits' = r.form
        /\ ipCalls' = IF ~skipIpCheck /\ clientAddress # ""
                      THEN MapSet(ipCalls, clientAddress, Append(MapGet(ipCalls, clientAddress), now))
                      ELSE ipCalls
        /\ formCalls' = IF email = "" THEN formCalls
                        ELSE MapSet(formCalls, key,
                                 Append(MapGet(formCalls, key), [at |-> now, ipDenied |-> ~r.emailChecked]))
        /\ rl' = [op |-> "form", identifier |-> clientAddress, email |-> email,
                  formType |-> formType, skipIpCheck |-> skipIpCheck,
                  maxRequests |-> options.maxRequests, windowMs |-> options.windowMs,
                  at |-> now, res |-> r.res,
                  ipChecked |-> r.ipChecked, emailChecked |-> r.emailChecked]
        /\ UNCHANGED <<now, ticks, apiReqs, api>>

\* cleanupRateLimits(), run by setInterval every hour or called directly
CleanupRateLimits ==
    LET c == cleanupRateLimits(ipLimits, formSubmissionLimits, now) IN
    /\ ipLimits' = c.ip
    /\ formSubmissionLimits' = c.form
    /\ rl' = [NoRl EXCEPT !.op = "cleanup", !.at = now]
    /\ api' = NoApi
    /\ UNCHANGED <<now, ticks, ipCalls, formCalls, apiReqs, nCalls>>

RateTickDeltas == {30000, 600000, 3600000}

TickRate ==
    \E d \in RateTickDeltas :
        /\ ticks < MaxTicks
        /\ now' = now + d
        /\ ticks' = ticks + 1
        /\ rl' = NoRl
        /\ api' = NoApi
        /\ UNCHANGED <<ipLimits, formSubmissionLimits, ipCalls, formCalls, apiReqs, nCalls>>

\* one POST handled by a handler created with options
ContactApiRequest ==
    \E options \in ApiOptions :
    \E getClientAddress \in {"absent", "throws", "10.0.0.1"} :
    \E limited \in {getClientAddress = "throws" \/
                     ~ApiRateLimit(ipLimits, formSubmissionLimits,
                                   IF getClientAddress = "absent" THEN "unknown" ELSE getClientAddress,
                                   options, now).res.allowed} :
    \E body \in (IF limited THEN {"object"} ELSE {"invalid", "null", "object"}) :
    \E recaptchaToken \in (IF limited \/ body # "object" THEN {FALSE} ELSE BOOLEAN) :
    \E verify \in (IF recaptchaToken THEN BOOLEAN ELSE {TRUE}) :
    LET parsed == ~limited /\ body = "object" /\ verify IN
    \E fields \in (IF parsed THEN {"valid", "blank", "nonstring"} ELSE {"valid"}) :
    \E customValidation \in (IF parsed /\ fields # "nonstring" /\ options.customValidation
                              THEN {"none", "errors", "throws"} ELSE {"none"}) :
    LET valid == parsed /\ fields = "valid" /\ customValidation = "none" IN
    \E customSuccess \in (IF valid /\ options.customSuccessHandler
                           THEN {"result", "nothing", "throws"} ELSE {"nothing"}) :
    \E sendEmail \in (IF valid /\ customSuccess # "result" THEN {"ok", "throws"} ELSE {"ok"}) :
    \E in \in {[getClientAddress |-> getClientAddress, body |-> body,
                 recaptchaToken |-> recaptchaToken, verify |-> verify, fields |-> fields,
                 customValidation |-> customValidation, customSuccess |-> customSuccess,
                 sendEmail |-> sendEmail, message |-> DefaultApiInput.message]} :
    \E o \in {contactApiHandler(options, in, ipLimits, formSubmissionLimits, now)} :
        LET address == ClientAddress(in) IN
        /\ nCalls < MaxApiCalls
        /\ nCalls' = nCalls + 1
        /\ ipLimits' = o.ip
        /\ formSubmissionLimits' = o.form
        /\ ipCalls' = IF "rateLimitFormSubmission" \in o.reached
                      THEN MapSet(ipCalls, address, Append(MapGet(ipCalls, address), now))
                      ELSE ipCalls
        /\ apiReqs' = IF getClientAddress = "throws" THEN apiReqs
                      ELSE MapSet(apiReqs, address, Append(MapGet(apiReqs, address), now))
        /\ api' = [n |-> nCalls + 1, options |-> options, in |-> in, at |-> now,
                   resp |-> o.resp, reached |-> o.reached]
        /\ rl' = NoRl
        /\ UNCHANGED <<now, ticks, formCalls>>

IdleOther == InitCsrf /\ last = NoOp /\ IdleMerge /\ IdleForm /\ IdleHandlers

OtherVars == <<csrfVars, last, mergeVars, formVars, handlerVars>>

\* rateLimitRequest on its own, for a client with a history
IpStep == RateLimitRequestCall \/ CleanupRateLimits \/ TickRate

NextIp == IpStep /\ UNCHANGED OtherVars

InitIp == InitRateWith(IpHistories) /\ IdleOther

SpecIp == InitIp /\ [][NextIp]_vars

\* rateLimitFormSubmission
RateStep == RateLimitFormSubmissionCall \/ CleanupRateLimits \/ TickRate

NextRate == RateStep /\ UNCHANGED OtherVars

InitRate == InitRateWith(FormHistories) /\ IdleOther

SpecRate == InitRate /\ [][NextRate]_vars

\* the router with requests for every slug
SlugStep ==
    \/ (issuedAt = EmptyMap /\ GenerateCsrfToken)
    \/ HandleSubmissionFor(Slugs)
    \/ Load

NextSlug == SlugStep /\ UNCHANGED <<mergeVars, rateVars, formVars, handlerVars>>

SpecSlug == InitRouterSpec /\ [][NextSlug]_vars

\* ------------------------------------------------------------ validation
\* the field lists a category can declare
FieldLists == {F \in SUBSET FieldNames : Cardinality(F) >= 1 /\ Cardinality(F) <= MaxFields}

\* the records that hold some of the given fields
RecordsOver(fields, values) == UNION {[K -> values] : K \in SUBSET fields}

\* config/index.js initContactFormConfig(userConfig): merge, then build the
\* validation schemas (lines 55-62)
InitConfigIndex ==
    \E fields \in FieldLists :
        LET config == [categories |-> [c \in {"general"} |-> fields], fieldConfigs |-> fieldConfigs] IN
        /\ conf.builder = "none"
        /\ conf' = [builder |-> "config/index.js", categories |-> config.categories,
                    fieldConfigs |-> config.fieldConfigs,
                    schemas |-> buildValidationSchemas(config)]
        /\ val' = NoVal

\* config/contactSchemas.js initContactFormConfig(userConfig) (lines 306-358)
InitConfigSchemas ==
    \E fields \in FieldLists :
        /\ conf.builder = "none"
        /\ conf' = [builder |-> "config/contactSchemas.js",
                    categories |-> [c \in {"general"} |-> fields],
                    fieldConfigs |-> fieldConfigs, schemas |-> <<>>]
        /\ val' = NoVal

\* The parsers and the validator keep no state between calls: a behaviour
\* observes one call on the configuration it built.

\* currentConfig.formDataParser(formData, category) of config/index.js; the
\* router goes on to the submission handler when no error is reported
FormDataParserIndexCall ==
    /\ conf.builder = "config/index.js"
    /\ val = NoVal
    /\ \E category \in {"general", "other"} :
       \E formData \in RecordsOver(conf.categories["general"], FormDataValues) :
       \E r \in {formDataParser_index(conf.schemas, formData, category)} :
           /\ val' = [op |-> "formDataParser", category |-> category, data |-> formData,
                      errors |-> r.errors, parsed |-> r.data, proceeds |-> ~HasErrors(r.errors)]
           /\ UNCHANGED conf

\* formDataParser(formData, categorySlug) of a contactSchemas configuration
FormDataParserSchemasCall ==
    /\ conf.builder = "config/contactSchemas.js"
    /\ val = NoVal
    /\ \E category \in {"general", "other"} :
       \E formData \in RecordsOver(conf.categories["general"], FormDataValues) :
       \E r \in {formDataParser_schemas(conf, formData, category)} :
           /\ val' = [op |-> "formDataParser", category |-> category, data |-> formData,
                      errors |-> r.errors, parsed |-> r.data, proceeds |-> ~HasErrors(r.errors)]
           /\ UNCHANGED conf

\* config.getValidatorForCategory(categorySlug)(data) of a contactSchemas
\* configuration, for a category of the configuration
ValidatorCall ==
    /\ conf.builder = "config/contactSchemas.js"
    /\ val = NoVal
    /\ \E category \in DOMAIN conf.categories :
       \E data \in RecordsOver(conf.categories[category], RecordValues) :
           /\ val' = [op |-> "validator", category |-> category, data |-> data,
                      errors |-> validator(conf, category, data), parsed |-> "raw", proceeds |-> FALSE]
           /\ UNCHANGED conf

FormStep ==
    \/ InitConfigIndex
    \/ InitConfigSchemas
    \/ FormDataParserIndexCall
    \/ FormDataParserSchemasCall
    \/ ValidatorCall

NextForm == FormStep /\ UNCHANGED <<clockVars, csrfVars, last, mergeVars, rateVars, handlerVars>>

SpecForm == InitRouterSpec /\ [][NextForm]_vars

\* both limiter functions with a clock that gains a digit: the calls start
\* 30 s before the clock reads StartTime (Date.now() is any integer number
\* of milliseconds; the timestamps are compared as strings by sort())
RolloverStart == StartTime - 30000

RolloverHistories == {Burst(n, RolloverStart) : n \in {0, 4, 5}}

InitRollover ==
    /\ now = RolloverStart
    /\ ticks = 0
    /\ \E h \in RolloverHistories :
         /\ ipLimits = HistoryMap(h)
         /\ ipCalls = HistoryMap(h)
    /\ formSubmissionLimits = <<>>
    /\ formCalls = <<>>
    /\ apiReqs = <<>>
    /\ nCalls = 0
    /\ rl = NoRl
    /\ api = NoApi
    /\ IdleOther

RolloverStep == RateLimitRequestCall \/ RateLimitFormSubmissionCall \/ CleanupRateLimits \/ TickRate

NextRollover == RolloverStep /\ UNCHANGED OtherVars

SpecRollover == InitRollover /\ [][NextRollover]_vars

\* the contact API handler
ApiStep == ContactApiRequest \/ CleanupRateLimits \/ TickRate

NextApi == ApiStep /\ UNCHANGED OtherVars

ApiHistories == {History(0, 0, 0), History(0, 0, 4)}

InitApi == InitRateWith(ApiHistories) /\ IdleOther

SpecApi == InitApi /\ [][NextApi]_vars

\* -------------------------------------------- middleware chained with router
\* the Response of the middleware for a request with no valid token
MiddlewareResponse ==
    [kind |-> "response", data |-> "n/a", errors |-> NoErrors, isSubmitted |-> FALSE, status |-> 403]

\* Mutant: the middleware looks the token up without consuming it.
csrfProtection_peek(store, formToken, t) ==
    [ok |-> validateCsrfToken(store, formToken, t).ok, store |-> store]

\* createCsrfProtection()'s handle for a form POST with no token header and
\* no token cookie (security/csrf.js lines 105-163): formData.get('csrf') is
\* validated when it is truthy
csrfProtection(store, formToken, t) ==
    IF formToken \in {CsrfNull, CsrfEmpty}
    THEN [ok |-> FALSE, store |-> store]
    ELSE validateCsrfToken(store, formToken, t)

\* What request.formData() gives the router on the request the middleware
\* re-created from the parsed FormData under the original headers (lines
\* 136-140): the same fields, fields without `csrf` (the body no longer has
\* the encoding the content-type header announces), or a rejection
RebuiltBodies == {"same", "noCsrfField", "unreadable"}

\* a form POST through the middleware and then, when it resolves, through
\* handleSubmission of a router built with cfg
ChainedPost ==
    \E formToken \in CsrfFields, rebuilt \in RebuiltBodies, cfg \in RouterConfigs :
    \E mw \in {csrfProtection(tokenStore, formToken, now)} :
    \E in \in {[DefaultInput EXCEPT !.bodyOk = (rebuilt # "unreadable"),
                                    !.csrf = IF rebuilt = "same" THEN formToken ELSE CsrfNull]} :
    \E o \in {IF mw.ok THEN handleSubmission(cfg, mw.store, now, in)
                       ELSE Outcome(MiddlewareResponse, mw.store, {}, FALSE)} :
        /\ tokenStore' = o.store
        /\ nValidations' = IF formToken \in Tokens
                           THEN [nValidations EXCEPT ![formToken] =
                                    IF o.validated /\ in.csrf = formToken THEN Bump(Bump(@)) ELSE Bump(@)]
                           ELSE nValidations
        /\ last' = [op |-> "chain", token |-> formToken, at |-> now, ok |-> mw.ok,
                    nth |-> Nth(formToken), cfg |-> cfg, in |-> in, resp |-> o.resp,
                    calls |-> IF mw.ok THEN o.calls \cup {"resolve"} ELSE {}]
        /\ UNCHANGED <<issuedAt, clockVars>>

ChainStep == GenerateCsrfToken \/ ChainedPost \/ TickCsrf

NextChain == ChainStep /\ UNCHANGED <<mergeVars, rateVars, formVars, handlerVars>>

SpecChain == InitRouterSpec /\ [][NextChain]_vars

\* ------------------------------------------------ the contact POST handler
\* one POST handled by a handler created with options; the outcome of a
\* callback that is not called is not an input
ContactPostRequest ==
    \E options \in PostOptions :
    \E body \in {"invalid", "null", "object"} :
    \E rateLimit \in (IF body = "object" /\ options.rateLimiter
                       THEN {"allowed", "denied", "throws"} ELSE {"allowed"}) :
    LET limited == body # "object" \/ rateLimit # "allowed" IN
    \E verify \in (IF ~limited /\ options.recaptchaEnabled /\ options.recaptchaVerifier
                    THEN {"valid", "invalid", "throws"} ELSE {"valid"}) :
    LET stopped == limited \/ verify # "valid" IN
    \E validation \in (IF stopped THEN {"valid"} ELSE {"valid", "invalid", "noSchema"}) :
    \E success \in (IF ~stopped /\ validation = "valid" /\ options.successHandler
                     THEN {"result", "nothing", "throws"} ELSE {"result"}) :
    \E in0 \in {[body |-> body, rateLimit |-> rateLimit, verify |-> verify,
                  validation |-> validation, success |-> success, errorStatus |-> 0,
                  message |-> "SMTP connection refused"]} :
    LET throws == contactPostHandler([options EXCEPT !.errorHandler = FALSE], in0).resp.status = 500 IN
    \E errorStatus \in (IF throws /\ options.errorHandler THEN {0, 400, 503} ELSE {0}) :
    \E message \in (IF throws THEN Messages ELSE {"SMTP connection refused"}) :
    \E in \in {[in0 EXCEPT !.errorStatus = errorStatus, !.message = message]} :
    \E o \in {contactPostHandler(options, in)} :
        /\ post' = [options |-> options, in |-> in, resp |-> o.resp, reached |-> o.reached]
        /\ UNCHANGED runs

PostStep == ContactPostRequest

NextPost == PostStep /\ UNCHANGED <<clockVars, csrfVars, last, mergeVars, rateVars, formVars>>

SpecPost == InitRouterSpec /\ [][NextPost]_vars

\* ------------------------------------------- two runs of one error path
\* Two requests are handled from the same state by the same handler; they
\* differ only in the message of the error that `thrower` throws.  The state
\* moves on as the first run leaves it; both responses are recorded.  One
\* pair of runs is compared per behaviour.
ThrownWith(message) == [message |-> message, status |-> 0]

TwoRuns(handler, thrower, customErrorHandler, m1, m2, first, second) ==
    [handler |-> handler, thrower |-> thrower, customErrorHandler |-> customErrorHandler,
     messages |-> <<m1, m2>>, first |-> first, second |-> second]

\* handleSubmission, the submission handler throwing
TwoSubmissions ==
    /\ runs = NoRuns
    /\ \E cfg \in {c \in RouterConfigs : c.createSubmissionHandler} :
       \E csrf \in DOMAIN tokenStore :
       \E parser \in (IF cfg.formDataParser
                       THEN {p \in ParserOutcomes : p.kind = "result" /\ ~p.hasErrors}
                       ELSE {DefaultParserOutcome}) :
       \E errorHandler \in (IF cfg.errorHandler THEN ErrorHandlerOutcomes ELSE {"nothing"}) :
       \E m1 \in Messages, m2 \in Messages :
       LET inWith(m) == [bodyOk |-> TRUE, csrf |-> csrf, parser |-> parser, create |-> "handler",
                         handler |-> [threw |-> TRUE, error |-> ThrownWith(m)],
                         errorHandler |-> errorHandler, redirect |-> "redirect", slug |-> S_general]
       IN
       \E o1 \in {handleSubmission(cfg, tokenStore, now, inWith(m1))} :
       \E o2 \in {handleSubmission(cfg, tokenStore, now, inWith(m2))} :
           /\ "submissionHandler" \in o1.calls \cap o2.calls
           /\ tokenStore' = o1.store
           /\ CountValidation(csrf)
           /\ last' = [op |-> "submit", token |-> csrf, at |-> now, ok |-> TRUE, nth |-> Nth(csrf),
                       cfg |-> cfg, in |-> inWith(m1), resp |-> o1.resp, calls |-> o1.calls]
           /\ runs' = TwoRuns("handleSubmission", "submissionHandler", cfg.errorHandler,
                              m1, m2, o1.resp, o2.resp)
           /\ UNCHANGED <<issuedAt, clockVars, rateVars, post>>

\* what the request makes `thrower` do in the handler of createContactApiHandler
ApiInputThrowing(thrower, message) ==
    [DefaultApiInput EXCEPT
        !.customValidation = IF thrower = "customValidation" THEN "throws" ELSE @,
        !.customSuccess = IF thrower = "customSuccessHandler" THEN "throws" ELSE @,
        !.sendEmail = IF thrower = "sendEmail" THEN "throws" ELSE @,
        !.message = message]

\* the handler of createContactApiHandler: customValidation, the success
\* handler or the email service throwing
TwoApiRequests ==
    /\ runs = NoRuns
    /\ \E options \in ApiOptions :
       \E thrower \in {"customValidation", "customSuccessHandler", "sendEmail"} :
       \E m1 \in Messages, m2 \in Messages :
       \E o1 \in {contactApiHandler(options, ApiInputThrowing(thrower, m1),
                                     ipLimits, formSubmissionLimits, now)} :
       \E o2 \in {contactApiHandler(options, ApiInputThrowing(thrower, m2),
                                     ipLimits, formSubmissionLimits, now)} :
           /\ nCalls < MaxApiCalls
           /\ thrower \in o1.reached \cap o2.reached
           /\ nCalls' = nCalls + 1
           /\ ipLimits' = o1.ip
           /\ formSubmissionLimits' = o1.form
           /\ ipCalls' = MapSet(ipCalls, "unknown", Append(MapGet(ipCalls, "unknown"), now))
           /\ apiReqs' = MapSet(apiReqs, "unknown", Append(MapGet(apiReqs, "unknown"), now))
           /\ api' = [n |-> nCalls + 1, options |-> options, in |-> ApiInputThrowing(thrower, m1),
                      at |-> now, resp |-> o1.resp, reached |-> o1.reached]
           /\ rl' = NoRl
           /\ runs' = TwoRuns("contactApiHandler", thrower, FALSE, m1, m2, o1.resp, o2.resp)
           /\ UNCHANGED <<clockVars, csrfVars, last, formCalls, post>>

\* what the request makes `thrower` do in the handler of createContactPostHandler
PostInputThrowing(thrower, errorStatus, message) ==
    [DefaultPostInput EXCEPT
        !.rateLimit = IF thrower = "rateLimiter" THEN "throws" ELSE @,
        !.verify = IF thrower = "recaptchaVerifier" THEN "throws" ELSE @,
        !.success = IF thrower = "successHandler" THEN "throws" ELSE @,
        !.errorStatus = errorStatus,
        !.message = message]

\* the handler of createContactPostHandler: the rate limiter, the reCAPTCHA
\* verifier or the success handler throwing
TwoPostRequests ==
    /\ runs = NoRuns
    /\ \E options \in PostOptions :
       \E thrower \in {"rateLimiter", "recaptchaVerifier", "successHandler"} :
       \E errorStatus \in (IF options.errorHandler THEN {0, 503} ELSE {0}) :
       \E m1 \in Messages, m2 \in Messages :
       \E o1 \in {contactPostHandler(options, PostInputThrowing(thrower, errorStatus, m1))} :
       \E o2 \in {contactPostHandler(options, PostInputThrowing(thrower, errorStatus, m2))} :
           /\ thrower \in o1.reached \cap o2.reached
           /\ post' = [options |-> options, in |-> PostInputThrowing(thrower, errorStatus, m1),
                       resp |-> o1.resp, reached |-> o1.reached]
           /\ runs' = TwoRuns("contactPostHandler", thrower, options.errorHandler,
                              m1, m2, o1.resp, o2.resp)
           /\ UNCHANGED <<clockVars, csrfVars, last, rateVars>>

EchoStep ==
    \/ (issuedAt = EmptyMap /\ GenerateCsrfToken /\ UNCHANGED <<rateVars, handlerVars>>)
    \/ TwoSubmissions
    \/ TwoApiRequests
    \/ TwoPostRequests
    \/ (TickCsrf /\ UNCHANGED <<rateVars, handlerVars>>)

NextEcho == EchoStep /\ UNCHANGED <<mergeVars, formVars>>

SpecEcho == InitRouterSpec /\ [][NextEcho]_vars

\* =========================================================================
\* Properties
\* =========================================================================
\* the parser was called for the latest submission and returned a non-empty errors map
ParserReportedErrors ==
    /\ last.op = "submit"
    /\ "formDataParser" \in last.calls
    /\ last.in.parser.kind = "result"
    /\ last.in.parser.hasErrors
    /\ DOMAIN last.in.parser.errors # {}

\* C1: in handleSubmission, whenever the form data parser returns a non-empty
\* errors map, neither createSubmissionHandler nor the submission handler is
\* invoked for that request and the response is
\* {form: {data, errors, isSubmitted: false}} with the parser's errors.
C1_NoSubmissionOnInvalidInput ==
    ParserReportedErrors =>
        /\ "createSubmissionHandler" \notin last.calls
        /\ "submissionHandler" \notin last.calls
        /\ last.resp.kind = "form"
        /\ last.resp.errors = last.in.parser.errors
        /\ last.resp.data = (IF last.in.parser.hasData THEN "parsed" ELSE "raw")
        /\ last.resp.isSubmitted = FALSE

C1_Witness ==
    /\ ParserReportedErrors
    /\ last.cfg.createSubmissionHandler
    /\ last.resp.errors = ErrName

\* by the history of the store: the value is an issued token, this is its
\* first validation since issuance and its TTL has not elapsed
TokenIsGood(token, nth, at) ==
    /\ token \in DOMAIN issuedAt
    /\ nth = 1
    /\ at <= issuedAt[token] + TOKEN_EXPIRY_MS

\* C2: a handleSubmission request whose csrf field is missing, not in the
\* token store, expired or already used ends with errors._form = "Invalid
\* security token. Please try again." and the echoed submitted data, and
\* neither the parser nor the submission handler (nor any other callback) is
\* invoked for it.
C2_TokenCheckFailsClosed ==
    (last.op = "submit" /\ last.in.bodyOk /\ ~TokenIsGood(last.token, last.nth, last.at)) =>
        /\ last.resp = FormResponse("raw", FormError(MsgCsrf))
        /\ last.calls = {}

\* an issued token, already used once and still within its TTL, is
\* resubmitted to a router that has a parser and a submission handler
C2_Witness ==
    /\ last.op = "submit"
    /\ last.in.bodyOk
    /\ last.token \in DOMAIN issuedAt
    /\ last.nth = 2
    /\ last.at <= issuedAt[last.token] + TOKEN_EXPIRY_MS
    /\ last.cfg.formDataParser
    /\ last.cfg.createSubmissionHandler
    /\ last.resp.errors = FormError(MsgCsrf)

\* the token check passed, the parser reported no errors and the submission
\* handler ran to completion
SubmissionSucceeded ==
    /\ last.op = "submit"
    /\ last.ok
    /\ "formDataParser" \in last.calls => last.in.parser.kind # "throw"
    /\ "submissionHandler" \in last.calls
    /\ ~last.in.handler.threw
    /\ last.in.redirect = "redirect"

\* C3: when the token check passes, the parser reports no errors and the
\* submission handler completes without throwing, the 303 redirect leaves
\* handleSubmission as a thrown redirect and no error response is returned,
\* with or without a custom errorHandler.
C3_RedirectPropagates ==
    (SubmissionSucceeded /\ "line928" \in last.calls) =>
        /\ last.resp.kind = "thrown"
        /\ last.resp.status = 303

\* C5: for every target and every source, the object returned by
\* secureDeepMerge has no own key named __proto__, constructor or prototype
\* at any depth.
C5_MergedOutputHasNoUnsafeKey ==
    mOut.fn = "secureDeepMerge" => ~HasUnsafeKey(mOut.result)

\* C6: both configuration builders skip a key named __proto__, constructor
\* or prototype found at any depth of userConfig: the built configuration
\* holds no such key (and no prototype replaced through one).
C6_BuildersUseSafeMerge ==
    mOut.fn \in {"config/index.js", "config/contactSchemas.js"} => ~HasUnsafeKey(mOut.result)

\* C4: a token returned by generateCsrfToken validates exactly once: a
\* validateCsrfToken call on it returns true exactly when it is the first
\* call since issuance and is made no later than TOKEN_EXPIRY_MS after
\* issuance; and the expiry held for a token is always its issuance time
\* plus TOKEN_EXPIRY_MS (nothing extends it).
C4_TokenValidatesExactlyOnce ==
    /\ (last.op = "validate" /\ last.token \in DOMAIN issuedAt) =>
           (last.ok <=> TokenIsGood(last.token, last.nth, last.at))
    /\ \A token \in DOMAIN tokenStore :
           tokenStore[token] = issuedAt[token] + TOKEN_EXPIRY_MS

\* a second validation of a token, made within its TTL, is refused
C4_Witness ==
    /\ last.op = "validate"
    /\ last.token \in DOMAIN issuedAt
    /\ last.nth = 2
    /\ last.at <= issuedAt[last.token] + TOKEN_EXPIRY_MS
    /\ ~last.ok

\* a first validation made exactly at the expiry time succeeds
C4_WitnessBoundary ==
    /\ last.op = "validate"
    /\ last.token \in DOMAIN issuedAt
    /\ last.nth = 1
    /\ last.at = issuedAt[last.token] + TOKEN_EXPIRY_MS
    /\ last.ok


\* ------------------------------------------------------------------ C10
\* the number of calls of a history made less than window before t
CallsWithin(times, t, window) == Cardinality({i \in DOMAIN times : t - times[i] < window})

\* C10: rateLimitRequest for a non-empty identifier allows the call if and
\* only if, counting the call itself, the identifier made at most 5 calls in
\* the last 60 s, at most 15 in the last 600 s and at most 30 in the last
\* 3600 s; a denial names the shortest violated window.  The counts are taken
\* over the history of all calls, whatever cleanupRateLimits removed.
C10_ThreeWindows ==
    (rl.op = "request" /\ rl.identifier # "") =>
        LET times == MapGet(ipCalls, rl.identifier)
            short == CallsWithin(times, rl.at, 60000)
            medium == CallsWithin(times, rl.at, 600000)
            long == CallsWithin(times, rl.at, 3600000)
        IN
        /\ rl.res.allowed <=> (short <= 5 /\ medium <= 15 /\ long <= 30)
        /\ ~rl.res.allowed =>
              rl.res.limitType = IF short > 5 THEN "short"
                                 ELSE IF medium > 15 THEN "medium" ELSE "long"

\* C10 witness: a call denied by the 3600 s window alone, the two shorter
\* windows being within their limits.
C10_Witness ==
    /\ rl.op = "request"
    /\ rl.identifier # ""
    /\ ~rl.res.allowed
    /\ rl.res.limitType = "long"
    /\ CallsWithin(MapGet(ipCalls, rl.identifier), rl.at, 60000) <= 5
    /\ CallsWithin(MapGet(ipCalls, rl.identifier), rl.at, 600000) <= 15

EmailCheckedCalls(key) ==
    SelectSeq(MapGet(formCalls, key), LAMBDA c : ~c.ipDenied)

\* C7: for a fixed email, formType and options, a rateLimitFormSubmission
\* call that reaches the email check is allowed while it is at most the
\* maxRequests-th such call within windowMs, and the next one is denied with
\* retryAfter > 0; a call made after the window has passed is allowed again.
C7_WindowLimitsSubmissions ==
    (rl.op = "form" /\ rl.email # "" /\ rl.emailChecked) =>
        LET calls == EmailCheckedCalls(EmailKey(rl.email, rl.formType))
            n == Cardinality({i \in DOMAIN calls : rl.at - calls[i].at < rl.windowMs})
        IN
        /\ n <= rl.maxRequests => rl.res.allowed
        /\ n > rl.maxRequests => (~rl.res.allowed /\ rl.res.retryAfter > 0)

\* ------------------------------------------------------------------- C8
\* C8: when a client address has sent more than rateLimitMaxRequests requests
\* within rateLimitWindowMs, this one included, the handler answers 429 and
\* reaches neither validation nor the success handler nor email sending.
C8_HandlerEnforcesConfiguredLimit ==
    (api.resp.status # 0 /\ api.in.getClientAddress # "throws") =>
        LET times == MapGet(apiReqs, ClientAddress(api.in))
            n == CallsWithin(times, api.at, api.options.rateLimitWindowMs)
        IN
        n > api.options.rateLimitMaxRequests =>
            /\ api.resp.status = 429
            /\ api.reached \cap {"validation", "customSuccessHandler", "sendEmail"} = {}


\* ------------------------------------------------------------------ C11
\* the window a denial names
ViolatedWindow(r) ==
    CASE r.res.limitType = "short" -> 60000
      [] r.res.limitType = "medium" -> 600000
      [] r.res.limitType = "long" -> 3600000
      [] OTHER -> r.windowMs

\* the recorded timestamps of the key a denial is about
RecordOfDenial(r) ==
    IF r.res.limitType = "email"
    THEN MapGet(formSubmissionLimits, EmailKey(r.email, r.formType))
    ELSE MapGet(ipLimits, r.identifier)

\* the numerically smallest element of a non-empty set of numbers
Smallest(S) == CHOOSE x \in S : \A y \in S : x <= y

\* C11: a denial at time now carries retryAfter = ceil((window - (now -
\* oldest)) / 1000), oldest being the numerically smallest recorded
\* timestamp of the key inside the violated window; so retryAfter is at
\* least 1 and at most ceil(window / 1000).
C11_RetryAfterFromOldest ==
    (rl.op \in {"request", "form"} /\ ~rl.res.allowed) =>
        LET window == ViolatedWindow(rl)
            record == RecordOfDenial(rl)
            inside == {record[i] : i \in {j \in DOMAIN record : rl.at - record[j] < window}}
            oldest == Smallest(inside)
        IN
        /\ rl.res.retryAfter = (window - (rl.at - oldest) + 999) \div 1000
        /\ rl.res.retryAfter >= 1
        /\ rl.res.retryAfter <= (window + 999) \div 1000


\* ------------------------------------------------------------------ C12
\* what a rateLimitFormSubmission call for formType would answer now, given
\* the two maps
AnswerFor(ip, form, clientAddress, email, formType, t) ==
    rateLimitFormSubmission(ip, form, clientAddress, email, formType,
        [maxRequests |-> FormOptions(formType).maxRequests,
         windowMs |-> FormOptions(formType).windowMs,
         skipIpCheck |-> FALSE], t).res

\* C12: a rateLimitFormSubmission call made for one formType changes neither
\* the stored timestamps of the same email under another formType nor the
\* answer (allowed, retryAfter) that a call with the same client address
\* and email would get for another formType.
C12_FormTypesAreIndependent ==
    [][(rl'.op = "form" /\ nCalls' = nCalls + 1) =>
         \A other \in FormTypes \ {rl'.formType} :
            /\ MapGet(formSubmissionLimits', EmailKey(rl'.email, other))
                 = MapGet(formSubmissionLimits, EmailKey(rl'.email, other))
            /\ AnswerFor(ipLimits', formSubmissionLimits', rl'.identifier, rl'.email, other, now')
                 = AnswerFor(ipLimits, formSubmissionLimits, rl'.identifier, rl'.email, other, now)]_vars


\* ------------------------------------------------------------------ C13
\* the times of the calls of an email key that reached the email check
EmailCheckedTimes(key) ==
    LET calls == EmailCheckedCalls(key) IN [i \in 1..Len(calls) |-> calls[i].at]

\* C13: no update is lost: at any moment, whatever the order in which
\* concurrent requests ran their rate limit calls and cleanupRateLimits, the
\* record of a key holds the timestamp of every call made on that key that
\* has not aged out of the key's window (3600 s for an identifier, windowMs
\* for an email key), so the following check counts it.
C13_NoUpdateLost ==
    /\ \A identifier \in DOMAIN ipCalls :
          InWindow(MapGet(ipLimits, identifier), now, 3600000)
            = InWindow(ipCalls[identifier], now, 3600000)
    /\ \A key \in DOMAIN formCalls :
          InWindow(MapGet(formSubmissionLimits, key), now, FormOptions(key[3]).windowMs)
            = InWindow(EmailCheckedTimes(key), now, FormOptions(key[3]).windowMs)


\* ------------------------------------------------------------------ C14
\* the two maps as they would be had cleanupRateLimits never run: every
\* timestamp ever pushed
UncleanedIp == ipCalls

UncleanedForm == [key \in DOMAIN formCalls |-> EmailCheckedTimes(key)]

\* C14: cleanupRateLimits is pure memory hygiene: the result (allowed,
\* retryAfter, limitType) of every rateLimitRequest and
\* rateLimitFormSubmission call is the one the call would give had
\* cleanupRateLimits never run, for every option set.
C14_CleanupIsPureHygiene ==
    [][(nCalls' = nCalls + 1 /\ rl'.op \in {"request", "form"}) =>
         rl'.res = IF rl'.op = "request"
                   THEN rateLimitRequest(UncleanedIp, rl'.identifier, now).res
                   ELSE rateLimitFormSubmission(UncleanedIp, UncleanedForm, rl'.identifier,
                            rl'.email, rl'.formType,
                            [maxRequests |-> rl'.maxRequests, windowMs |-> rl'.windowMs,
                             skipIpCheck |-> rl'.skipIpCheck], now).res]_vars


\* ------------------------------------------------------------------ C15
\* the slug is neither a category key nor the normalized label of a category
\* (nor the reserved success page)
UnknownSlug(slug) ==
    /\ slug \notin DOMAIN RouterCategories
    /\ \A key \in DOMAIN RouterCategories : NormalizedLabel(RouterCategories[key]) # slug
    /\ slug # S_success

\* C15: a request for an unknown slug, made with the error and redirect
\* helpers supplied, never invokes the submission handler, and load answers
\* it with not-found (404).
C15_UnknownSlugIsNotFound ==
    (last.op \in {"load", "submit"} /\ UnknownSlug(last.in.slug) /\ last.in.redirect = "redirect") =>
        /\ "submissionHandler" \notin last.calls
        /\ last.op = "load" => last.resp.status = 404


\* ------------------------------------------------------------------ C16
\* C16: when the submission handler throws and an errorHandler is
\* configured, the errorHandler is consulted for every failure, reCAPTCHA
\* failures included, and its non-empty result is what is returned; when it
\* is absent or returns nothing, a reCAPTCHA failure gives the reCAPTCHA
\* message and any other failure the generic message.
C16_ErrorHandlerRepliesFirst ==
    (last.op = "submit" /\ "submissionHandler" \in last.calls /\ last.in.handler.threw) =>
        /\ last.cfg.errorHandler =>
              /\ "errorHandler" \in last.calls
              /\ last.in.errorHandler = "custom" => last.resp = CustomResponse
        /\ (~last.cfg.errorHandler \/ last.in.errorHandler = "nothing") =>
              last.resp = FormResponse(last.resp.data,
                              FormError(IF IncludesRecaptcha(last.in.handler.error)
                                        THEN MsgRecaptcha ELSE MsgGeneric))


\* ------------------------------------------------------------------ C17
\* the fields of the parsed category that have a configuration
ConfiguredFields == conf.categories[val.category] \cap DOMAIN conf.fieldConfigs

\* C17: for a category of a configuration built by config/index.js whose
\* fields all have a configuration, the category schema used by formDataParser accepts every record whose values
\* are valid and which holds every required field of the category, fields
\* that are not required being free to be absent, and rejects every record
\* that lacks a required field.
C17_SchemaAcceptsValidRecords ==
    (val.op = "formDataParser" /\ conf.builder = "config/index.js"
       /\ val.category \in DOMAIN conf.categories
       /\ conf.categories[val.category] \subseteq DOMAIN conf.fieldConfigs) =>
        LET valid(f) == FieldIssues(conf.fieldConfigs[f], val.data[f]) = <<>>
            required == {f \in ConfiguredFields : conf.fieldConfigs[f].required}
        IN
        /\ ((required \subseteq DOMAIN val.data)
               /\ (\A f \in ConfiguredFields \cap DOMAIN val.data : valid(f)))
              => val.errors = NoErrors
        /\ ~(required \subseteq DOMAIN val.data) => val.errors # NoErrors


\* ------------------------------------------------------------------ C18
\* a value that is missing or blank: no entry in the record, a string made of
\* whitespace only (the empty string included), or the `false` of a box that
\* was left unchecked
MissingOrBlank(data, f) ==
    \/ f \notin DOMAIN data
    \/ data[f].t = "string" /\ \A i \in DOMAIN data[f].s : data[f].s[i] \in {" ", "\t"}
    \/ data[f] = Bool(FALSE)

C19_DefaultParserChecksRequired ==
    (val.op = "formDataParser" /\ conf.builder = "config/contactSchemas.js"
       /\ val.category \in DOMAIN conf.categories) =>
        \A f \in conf.categories[val.category] :
            (/\ f \in DOMAIN conf.fieldConfigs
             /\ conf.fieldConfigs[f].required
             /\ MissingOrBlank(val.data, f))
                => (f \in DOMAIN val.errors /\ ~val.proceeds)


\* ------------------------------------------------------------------ C20
\* C20: buildValidationSchemas builds one schema per category whose keys are
\* exactly the declared fields of the category that have a field schema, plus
\* attachments: a declared field with no fieldConfigs entry is dropped, and
\* the attachments schema is present whether or not the category lists it.
C20_CategorySchemaKeys ==
    conf.builder = "config/index.js" =>
        /\ DOMAIN conf.schemas = DOMAIN conf.categories
        /\ \A c \in DOMAIN conf.categories :
            /\ DOMAIN conf.schemas[c] =
                   (conf.categories[c] \cap DOMAIN conf.fieldConfigs) \cup {"attachments"}
            /\ conf.schemas[c]["attachments"] = AttachmentsSchema


\* ------------------------------------------------------------------ C25
\* C25: validateCsrfToken changes the token store only by deleting the token
\* it was given.  A call with an unknown, empty or non-string token returns
\* false and leaves the store as it was; a call with a stored token removes
\* exactly that token, returning false when it has expired and true when it
\* has not; every other token keeps its expiry time.
C25_ValidateOnlyDeletesItsToken ==
    [][last'.op = "validate" =>
         LET token == last'.token IN
         /\ DOMAIN tokenStore' = DOMAIN tokenStore \ {token}
         /\ \A x \in DOMAIN tokenStore' : tokenStore'[x] = tokenStore[x]
         /\ token \notin DOMAIN tokenStore => (~last'.ok /\ tokenStore' = tokenStore)
         /\ token \in DOMAIN tokenStore => (last'.ok <=> ~(now > tokenStore[token]))]_vars

\* C25 witness: a successful validation has removed its token while another
\* token is still stored with the expiry time it was issued with.
C25_Witness ==
    /\ last.op = "validate" /\ last.ok
    /\ last.token \notin DOMAIN tokenStore
    /\ \E x \in DOMAIN tokenStore :
          x # last.token /\ tokenStore[x] = issuedAt[x] + TOKEN_EXPIRY_MS

\* C25 witness: an expired token was rejected and removed, another token
\* staying stored.
C25_WitnessExpired ==
    /\ last.op = "validate" /\ ~last.ok
    /\ last.token \in DOMAIN issuedAt /\ last.token \notin DOMAIN tokenStore
    /\ last.nth = 1
    /\ DOMAIN tokenStore # {}


\* ------------------------------------------------------------------ C26
\* the reply of handleSubmission to a request whose token check failed
RejectedForToken(op) ==
    op.resp = FormResponse("raw", FormError(MsgCsrf)) /\ op.calls = {}

\* C26: handleSubmission's token check consumes the token however the request
\* ends.  After a request that passed the check (ending in validation errors,
\* a handler failure or success) the token is no longer stored; a request
\* carrying a token that is not stored, and in particular a resubmission with
\* the token of the request before it, ends in the "Invalid security token"
\* error without reaching the parser or the submission handler.
C26_TokenConsumedWhateverTheOutcome ==
    [][last'.op = "submit" =>
         /\ last'.ok => last'.token \notin DOMAIN tokenStore'
         /\ (last'.in.bodyOk /\ last'.token \notin DOMAIN tokenStore) => RejectedForToken(last')
         /\ (last.op = "submit" /\ last.ok /\ last'.in.bodyOk /\ last'.token = last.token)
               => RejectedForToken(last')]_vars

\* C26 witness: a request passed the token check and ended in the validation
\* errors of the parser; its token is gone from the store.
C26_Witness ==
    /\ last.op = "submit" /\ last.ok
    /\ last.resp = FormResponse("parsed", ErrName)
    /\ last.token \in DOMAIN issuedAt
    /\ last.token \notin DOMAIN tokenStore

\* ------------------------------------------------------------------ C27
\* C27: when the createCsrfProtection middleware and the category router
\* handle the same form POST and the only token is the csrf form field, the
\* middleware's successful validation has deleted the token: the router ends
\* the re-created request with an error before the parser, and with the
\* "Invalid security token" error whenever it can read the form; no callback
\* of the router is called.
C27_ChainedRequestNeverReachesParser ==
    (last.op = "chain" /\ last.ok) =>
        /\ last.calls = {"resolve"}
        /\ last.resp.kind = "form" /\ DOMAIN last.resp.errors = {"_form"}
        /\ last.in.bodyOk => last.resp = FormResponse("raw", FormError(MsgCsrf))
        /\ last.token \notin DOMAIN tokenStore

\* C27 witness: the middleware accepted an issued token and resolved, and the
\* router, built with a parser and a submission handler, read the same csrf
\* field and rejected it.
C27_Witness ==
    /\ last.op = "chain" /\ last.ok /\ "resolve" \in last.calls
    /\ last.token \in DOMAIN issuedAt
    /\ last.in.bodyOk /\ last.in.csrf = last.token
    /\ last.cfg.formDataParser /\ last.cfg.createSubmissionHandler
    /\ last.resp.errors = FormError(MsgCsrf)

\* ------------------------------------------------------------------ C22
\* C22: load, called with the error and redirect helpers for a slug other
\* than the success page, resolves the slug in this order: a slug equal to a
\* category key returns the form of that category; otherwise a slug equal to
\* the lower-cased, whitespace-to-hyphen label of a category is answered with
\* a 301 redirect to the key of the first such category, which is an existing
\* category key; otherwise a 404 is raised.
C22_LoadResolvesSlugInOrder ==
    (last.op = "load" /\ last.in.redirect = "redirect" /\ last.in.slug # S_success) =>
        LET slug == last.in.slug
            byLabel == {k \in DOMAIN RouterCategories : NormalizedLabel(RouterCategories[k]) = slug}
        IN CASE slug \in DOMAIN RouterCategories -> last.resp = LoadResponse("form", 0)
             [] slug \notin DOMAIN RouterCategories /\ byLabel # {} ->
                    /\ last.resp = LoadResponse("thrown", 301)
                    /\ RedirectTarget(RouterCategories, slug) \in byLabel
             [] OTHER -> last.resp = LoadResponse("thrown", 404)

\* ------------------------------------------------------------------ C28
\* the latest timestamp of a record
LastOf(timestamps) == IF timestamps = <<>> THEN 0 ELSE timestamps[Len(timestamps)]

\* the latest call recorded its timestamp under every key it checked
CallIsRecorded ==
    /\ (rl.op \in {"request", "form"} /\ rl.ipChecked) =>
          LastOf(MapGet(ipLimits, rl.identifier)) = rl.at
    /\ (rl.op = "form" /\ rl.emailChecked) =>
          LastOf(MapGet(formSubmissionLimits, EmailKey(rl.email, rl.formType))) = rl.at

\* C28: denied calls are recorded too.  rateLimitRequest and the email check
\* of rateLimitFormSubmission append the current timestamp before counting,
\* whether the call is then allowed or denied, and a call on a key is allowed
\* only when the calls made on that key within the window, allowed or denied
\* and this one included, are within the limit: a client that calls more
\* often than the limit allows is not allowed again before enough of its own
\* timestamps have aged out of the window.
C28_DeniedCallsCount ==
    /\ CallIsRecorded
    /\ (rl.op = "request" /\ rl.identifier # "" /\ rl.res.allowed) =>
          LET times == MapGet(ipCalls, rl.identifier) IN
          /\ CallsWithin(times, rl.at, DEFAULT_TIME_WINDOWS_SHORT) <= DEFAULT_RATE_LIMITS_SHORT
          /\ CallsWithin(times, rl.at, DEFAULT_TIME_WINDOWS_MEDIUM) <= DEFAULT_RATE_LIMITS_MEDIUM
          /\ CallsWithin(times, rl.at, DEFAULT_TIME_WINDOWS_LONG) <= DEFAULT_RATE_LIMITS_LONG
    /\ (rl.op = "form" /\ rl.emailChecked /\ rl.res.allowed) =>
          CallsWithin(EmailCheckedTimes(EmailKey(rl.email, rl.formType)), rl.at, rl.windowMs)
              <= rl.maxRequests

\* ------------------------------------------------------------------ C29
\* the latest request passed the rate limit and carried a JSON object
ApiBodyParsed ==
    /\ api.resp.status \notin {0, 429}
    /\ api.in.getClientAddress # "throws"
    /\ api.in.body = "object"

\* C29: in createContactApiHandler reCAPTCHA verification gates a request
\* only when the body carries a recaptchaToken.  A request without one is not
\* passed to verifyRecaptchaToken and goes on to validation and, when its
\* fields are valid and no custom success handler answers, to sendEmail; a
\* request whose token fails verification reaches neither validation nor the
\* custom success handler nor sendEmail.
C29_RecaptchaGatesOnlyWithToken ==
    ApiBodyParsed =>
        /\ ~api.in.recaptchaToken =>
              /\ "verifyRecaptchaToken" \notin api.reached
              /\ "validation" \in api.reached
              /\ (api.in.fields = "valid" /\ api.in.customValidation = "none"
                    /\ api.in.customSuccess # "result") => "sendEmail" \in api.reached
        /\ (api.in.recaptchaToken /\ ~api.in.verify) =>
              /\ "verifyRecaptchaToken" \in api.reached
              /\ api.reached \cap {"validation", "customValidation",
                                   "customSuccessHandler", "sendEmail"} = {}

\* C29 witness: a request without recaptchaToken was answered with success
\* after sendEmail, verifyRecaptchaToken never being called.
C29_Witness ==
    /\ ApiBodyParsed /\ ~api.in.recaptchaToken
    /\ api.resp.status = 200
    /\ "sendEmail" \in api.reached /\ "verifyRecaptchaToken" \notin api.reached

\* C29 witness: a request whose token failed verification was stopped before
\* validation.
C29_WitnessFailedToken ==
    /\ ApiBodyParsed /\ api.in.recaptchaToken /\ ~api.in.verify
    /\ api.reached = {"rateLimitFormSubmission", "verifyRecaptchaToken"}

\* ------------------------------------------------------------------ C23
\* the failure kinds of the latest createContactApiHandler request
ApiRateLimited == api.resp.status # 0 /\ api.reached = {"rateLimitFormSubmission"}
                      /\ api.resp.body = "rateLimit"

ApiRecaptchaFailed == ApiBodyParsed /\ api.in.recaptchaToken /\ ~api.in.verify

ApiValidationFailed ==
    /\ ApiBodyParsed /\ (api.in.recaptchaToken => api.in.verify)
    /\ api.in.fields = "blank" \/ api.in.customValidation = "errors"
    /\ api.in.fields # "nonstring" /\ api.in.customValidation # "throws"

ApiThrew ==
    /\ api.resp.status # 0
    /\ \/ api.in.getClientAddress = "throws"
       \/ api.resp.status # 429 /\ api.in.body = "null"
       \/ ApiBodyParsed /\ (api.in.recaptchaToken => api.in.verify)
            /\ (api.in.fields = "nonstring" \/ api.in.customValidation = "throws")

\* the failure kinds of the latest createContactPostHandler request, made
\* without a custom error handler
PostRateLimited == post.in.body = "object" /\ post.options.rateLimiter /\ post.in.rateLimit = "denied"

PostRecaptchaFailed == "recaptchaVerifier" \in post.reached /\ post.in.verify = "invalid"

PostValidationFailed == "validation" \in post.reached /\ post.in.validation = "invalid"

PostThrew ==
    \/ post.in.body # "object"
    \/ "rateLimiter" \in post.reached /\ post.in.rateLimit = "throws"
    \/ "recaptchaVerifier" \in post.reached /\ post.in.verify = "throws"
    \/ "validation" \in post.reached /\ post.in.validation = "noSchema"
    \/ "successHandler" \in post.reached /\ post.in.success # "result"

\* the statuses of createContactPostHandler
PostStatusesAreDocumented ==
    (post.resp.status # 0 /\ ~post.options.errorHandler) =>
        /\ PostRateLimited <=> post.resp.status = 429
        /\ PostRecaptchaFailed <=> post.resp.status = 403
        /\ PostValidationFailed <=> post.resp.status = 400
        /\ PostThrew <=> post.resp.status = 500

\* C23: both POST handlers answer each failure with its documented status:
\* 429 when the rate limiter denies, 403 when reCAPTCHA verification fails,
\* 400 when field validation fails, 500 for an unexpected exception, and no
\* failure kind is answered with the status of another.
C23_FailureStatuses ==
    /\ PostStatusesAreDocumented
    /\ api.resp.status # 0 =>
          /\ ApiRateLimited => api.resp.status = 429
          /\ ApiRecaptchaFailed => api.resp.status = 403
          /\ ApiValidationFailed => api.resp.status = 400
          /\ ApiThrew => api.resp.status = 500

\* a message that the inner catch of the router answers with the reCAPTCHA text
MentionsRecaptcha(message) == IncludesRecaptcha(ThrownWith(message))

\* C24: with no custom error handler, two runs of a handler that differ only
\* in the message of the exception thrown on the way, neither message
\* containing "reCAPTCHA", return identical responses.
C24_NoExceptionDetailInResponse ==
    (/\ runs.handler # "none"
     /\ ~runs.customErrorHandler
     /\ ~MentionsRecaptcha(runs.messages[1])
     /\ ~MentionsRecaptcha(runs.messages[2]))
    => runs.first = runs.second

\* C24 witness: the submission handler threw two different messages and the
\* router answered both with the same generic form error.
C24_Witness ==
    /\ runs.handler = "handleSubmission"
    /\ ~runs.customErrorHandler
    /\ runs.messages = <<"SMTP connection refused", "ETIMEDOUT 10.0.0.5:465">>
    /\ runs.first = runs.second
    /\ runs.first.errors = FormError(MsgGeneric)

\* C24 witness: the success handler of the POST handler threw two different
\* messages and both requests got the fixed 500 response.
C24_WitnessPost ==
    /\ runs.handler = "contactPostHandler"
    /\ runs.thrower = "successHandler"
    /\ ~runs.customErrorHandler
    /\ runs.messages = <<"SMTP connection refused", "ETIMEDOUT 10.0.0.5:465">>
    /\ runs.first = ApiResponse(500, "error", 0)
    /\ runs.second = ApiResponse(500, "error", 0)

\* C24 witness: the custom validation of the API handler threw two different
\* messages and both requests got the fixed 500 response.
C24_WitnessApi ==
    /\ runs.handler = "contactApiHandler"
    /\ runs.thrower = "customValidation"
    /\ runs.messages = <<"SMTP connection refused", "ETIMEDOUT 10.0.0.5:465">>
    /\ runs.first = ApiResponse(500, "error", 0)
    /\ runs.second = ApiResponse(500, "error", 0)

\* the table of a merged configuration under `name` holds every key of the
\* default table
KeepsDefaultKeys(config, defaults, name) ==
    /\ config.t = "obj"
    /\ name \in DOMAIN config.f
    /\ config.f[name].t = "obj"
    /\ DOMAIN defaults.f[name].f \subseteq DOMAIN config.f[name].f

\* the configuration built by either initContactFormConfig
BuiltConfig == mOut.fn \in {"config/index.js", "config/contactSchemas.js"}

DefaultsOf(fn) == IF fn = "config/index.js" THEN defaultConfig ELSE defaultContactSchema

\* userConfig has no `categories` of its own or a plain object there
OverridesByObject(userConfig, name) ==
    userConfig.t = "obj" /\ name \in DOMAIN userConfig.f => userConfig.f[name].t = "obj"

C30_WitnessIndex ==
    /\ mOut.fn = "config/index.js"
    /\ mIn.source = Obj(Prop("categories", Obj(Prop("categories", POne))))
    /\ DOMAIN mOut.result.f["categories"].f = {"general", "categories"}

\* an own member of an object or an element of an array, undefined otherwise
OwnMember(v, key) ==
    CASE v.t = "obj" -> IF key \in DOMAIN v.f THEN v.f[key] ELSE Undefined
      [] v.t = "arr" -> IF \E i \in 1..Len(v.e) : IndexKey(i) = key
                        THEN v.e[CHOOSE i \in 1..Len(v.e) : IndexKey(i) = key]
                        ELSE Undefined
      [] OTHER -> Undefined

\* the categories a configuration defines, as <<key, category>> pairs
CategoriesOf(config) == Entries(OwnMember(config, "categories"))

\* the fields list of a category, empty when it has none
FieldsOf(category) ==
    IF OwnMember(category, "fields").t = "arr" THEN OwnMember(category, "fields").e ELSE <<>>

\* the fields some category of the configuration references
ReferencedFields(config) ==
    UNION {{FieldKey(FieldsOf(c[2])[i]) : i \in 1..Len(FieldsOf(c[2]))} : c \in CategoriesOf(config)}

\* the problems of a configuration: no category, a category without a label,
\* a category with a missing or empty fields list, a referenced field with
\* no fieldConfigs entry, reCAPTCHA enabled without a site key
ConfigProblems(config) ==
    (IF CategoriesOf(config) = {} THEN {Warning("noCategories", "")} ELSE {})
    \cup {Warning("label", c[1]) :
             c \in {d \in CategoriesOf(config) : ~Truthy(OwnMember(d[2], "label"))}}
    \cup {Warning("fields", c[1]) : c \in {d \in CategoriesOf(config) : FieldsOf(d[2]) = <<>>}}
    \cup {Warning("fieldConfig", f) :
             f \in {g \in ReferencedFields(config) :
                       ~Truthy(OwnMember(OwnMember(config, "fieldConfigs"), g))}}
    \cup (IF /\ Truthy(OwnMember(OwnMember(config, "recaptcha"), "enabled"))
             /\ ~Truthy(OwnMember(OwnMember(config, "recaptcha"), "siteKey"))
          THEN {Warning("recaptcha", "")} ELSE {})

\* the configuration built by config/contactSchemas.js initContactFormConfig
SchemaConfigBuilt == mOut.fn = "config/contactSchemas.js"

\* C21: contactSchemas.initContactFormConfig never throws on a misconfigured
\* userConfig; validationResult.errors holds one warning per problem of the
\* merged configuration and validationResult.valid is true exactly when
\* there is no problem.
C21_WarningsMatchProblems ==
    SchemaConfigBuilt =>
        /\ ~mOut.validation.threw
        /\ mOut.validation.errors = ConfigProblems(mOut.result)
        /\ mOut.validation.valid = (ConfigProblems(mOut.result) = {})

=============================================================================
